---- MODULE Spec2Model ----
(***************************************************************************)
(* A model of the pet-product search chatbot: ProductSearch.search         *)
(* (product_search.py), ConversationMemory and CustomerMemory (memory.py), *)
(* extract_search_intent (nlu.py) and PetProductChatbot (chatbot.py).      *)
(*                                                                         *)
(* Text (messages, ingredient lists, exclusion and requirement terms) is   *)
(* a sequence of one-character strings, so that str.lower() and the        *)
(* substring test `a in b` are computed as Python computes them.  Prices   *)
(* are whole dollars and distances are hundredths; floating-point rounding *)
(* is outside the model.  Python's None is the empty sequence, like the    *)
(* empty string and the empty list: the code tests optional values for     *)
(* truthiness only.  A dict is a record whose DOMAIN is its key set.       *)
(***************************************************************************)
EXTENDS Integers, Sequences, FiniteSets, TLC

(***************************************************************************)
(* Bounds of the model.                                                    *)
(***************************************************************************)
MaxTurns == 2
MaxSessions == 2
MaxCalls == 3
MaxHistory == 2

(***************************************************************************)
(* Python strings.                                                         *)
(***************************************************************************)
\* Python None, the empty string and the empty list: all falsy
None == <<>>

\* bool(x) for a string, a list, a dict or None
Truthy(x) == x # <<>>

Range(seq) == {seq[i] : i \in DOMAIN seq}

UpperCase == <<"A", "B", "C", "D", "E", "F", "G", "H", "I", "J", "K", "L", "M", "N", "O", "P", "Q", "R", "S", "T", "U", "V", "W", "X", "Y", "Z">>
LowerCase == <<"a", "b", "c", "d", "e", "f", "g", "h", "i", "j", "k", "l", "m", "n", "o", "p", "q", "r", "s", "t", "u", "v", "w", "x", "y", "z">>

\* the lower-case letter of each upper-case letter
ToLower ==
    [c \in Range(UpperCase) |-> LowerCase[CHOOSE i \in DOMAIN UpperCase : UpperCase[i] = c]]

LowerChar(c) == IF c \in DOMAIN ToLower THEN ToLower[c] ELSE c

\* str.lower()
lower(s) == [i \in 1..Len(s) |-> LowerChar(s[i])]

\* the Python test `needle in hay` on two strings
In(needle, hay) ==
    \E h \in {hay} :
       \E i \in 0..(Len(h) - Len(needle)) :
          SubSeq(h, i + 1, i + Len(needle)) = needle

\* ",".join(parts)
RECURSIVE join(_)
join(parts) ==
    IF Len(parts) = 0 THEN <<>>
    ELSE IF Len(parts) = 1 THEN parts[1]
    ELSE parts[1] \o <<",">> \o join(Tail(parts))

\* sep.join(parts)
RECURSIVE str_join(_, _)
str_join(sep, parts) ==
    IF Len(parts) = 0 THEN <<>>
    ELSE IF Len(parts) = 1 THEN parts[1]
    ELSE parts[1] \o sep \o str_join(sep, Tail(parts))

Digits == <<"0", "1", "2", "3", "4", "5", "6", "7", "8", "9">>

\* str(n) for n >= 0
RECURSIVE str(_)
str(n) == IF n < 10 THEN <<Digits[n + 1]>> ELSE str(n \div 10) \o <<Digits[(n % 10) + 1]>>

\* list(set(xs)): the elements of xs without duplicates, in an order that
\* depends on the interpreter's string hashing; every order is possible
Orderings(S) ==
    {seq \in [1..Cardinality(S) -> S] : \A i, j \in 1..Cardinality(S) : i # j => seq[i] # seq[j]}

list_set(xs) == Orderings(Range(xs))

(***************************************************************************)
(* Words used as terms, cues and ingredients.                              *)
(***************************************************************************)
salmon == <<"s", "a", "l", "m", "o", "n">>
chicken == <<"c", "h", "i", "c", "k", "e", "n">>
grain == <<"g", "r", "a", "i", "n">>
grains == <<"g", "r", "a", "i", "n", "s">>

\* product_search.py:289, the grain types the post-filter accepts
PostFilterGrains == <<<<"r", "i", "c", "e">>, <<"b", "a", "r", "l", "e", "y">>, <<"w", "h", "e", "a", "t">>, <<"o", "a", "t">>, <<"c", "o", "r", "n">>, <<"g", "r", "a", "i", "n">>>>

\* product_search.py:106, the grain types behind the has_grain flag
FlagGrains == <<<<"w", "h", "e", "a", "t">>, <<"c", "o", "r", "n">>, <<"g", "r", "a", "i", "n">>, <<"b", "a", "r", "l", "e", "y">>, <<"r", "i", "c", "e">>>>

(***************************************************************************)
(* The catalogue (data/products.json) and the collection load_products     *)
(* builds from it.                                                         *)
(***************************************************************************)
Products == <<
    [id |-> "p1", name |-> "Ocean Feast", price |-> 30, target_pet |-> <<"d", "o", "g">>,
     brand |-> <<"A", "c", "m", "e">>, ingredients |-> <<<<"S", "a", "l", "m", "o", "n">>, <<"r", "i", "c", "e">>>>],
    [id |-> "p2", name |-> "Farm Bowl", price |-> 30, target_pet |-> <<"d", "o", "g">>,
     brand |-> <<"B", "r", "a", "v", "o">>, ingredients |-> <<<<"c", "h", "i", "c", "k", "e", "n">>, <<"o", "a", "t", "s">>>>],
    [id |-> "p3", name |-> "Prairie Mix", price |-> 60, target_pet |-> <<"c", "a", "t">>,
     brand |-> <<"A", "c", "m", "e">>, ingredients |-> <<<<"b", "e", "e", "f">>, <<"b", "a", "r", "l", "e", "y">>>>] >>

ProductIds == {Products[i].id : i \in DOMAIN Products}

\* the metadata dict load_products stores for one product
Metadata(product) ==
    [product_id |-> product.id,
     name |-> product.name,
     price |-> product.price,
     target_pet |-> product.target_pet,
     brand |-> product.brand,
     ingredients |-> join(product.ingredients),
     has_salmon |-> In(salmon, lower(join(product.ingredients))),
     has_chicken |-> In(chicken, lower(join(product.ingredients))),
     has_grain |-> \E i \in DOMAIN FlagGrains :
                       In(FlagGrains[i], lower(join(product.ingredients)))]

\* the collection after load_products: id -> metadata
load_products == [id \in ProductIds |->
    Metadata(Products[CHOOSE i \in DOMAIN Products : Products[i].id = id])]


(***************************************************************************)
(* ProductSearch.search: Filter Builder.                                   *)
(***************************************************************************)
\* the flag condition one exclusion term adds, if it is a recognized allergen
RECURSIVE exclusion_conditions(_)
exclusion_conditions(dietary_exclusions) ==
    IF Len(dietary_exclusions) = 0 THEN <<>>
    ELSE LET exclusion == Head(dietary_exclusions)
             rest == exclusion_conditions(Tail(dietary_exclusions))
         IN IF lower(exclusion) = salmon
            THEN <<[has_salmon |-> [eq |-> FALSE]]>> \o rest
            ELSE IF lower(exclusion) = chicken
            THEN <<[has_chicken |-> [eq |-> FALSE]]>> \o rest
            ELSE IF lower(exclusion) \in {grain, grains}
            THEN <<[has_grain |-> [eq |-> FALSE]]>> \o rest
            ELSE rest

conditions(target_pet, dietary_exclusions) ==
    (IF Truthy(target_pet) THEN <<[target_pet |-> [eq |-> target_pet]]>> ELSE <<>>)
    \o (IF Truthy(dietary_exclusions) THEN exclusion_conditions(dietary_exclusions) ELSE <<>>)

\* where_filter that wraps a single condition in an AND as well
where_filter_always_and(target_pet, dietary_exclusions) ==
    LET cs == conditions(target_pet, dietary_exclusions)
    IN IF Len(cs) = 0 THEN None ELSE [and |-> cs]

\* None, the single condition, or {"$and": conditions}
where_filter(target_pet, dietary_exclusions) ==
    LET cs == conditions(target_pet, dietary_exclusions)
    IN IF Len(cs) = 0 THEN None
       ELSE IF Len(cs) = 1 THEN cs[1]
       ELSE [and |-> cs]

(***************************************************************************)
(* The Vector Store (chromadb collection.query), an external collaborator: *)
(* it answers with the n_results nearest stored items that satisfy the     *)
(* predicate.  Which items are nearest is decided by the embedding space,  *)
(* so the order of the items is an input of the model.                     *)
(***************************************************************************)
condition_holds(cond, metadata) ==
    \A f \in DOMAIN cond : metadata[f] = cond[f].eq

where_holds(where, metadata) ==
    IF where = None THEN TRUE
    ELSE IF "and" \in DOMAIN where
    THEN \A i \in DOMAIN where.and : condition_holds(where.and[i], metadata)
    ELSE condition_holds(where, metadata)

Min(a, b) == IF a < b THEN a ELSE b

\* the store's answer when `order` lists the stored ids from the nearest to
\* the farthest from the query: the first n_results that satisfy the predicate
nearest(coll, where, n_results, order) ==
    LET matching == SelectSeq(order, LAMBDA id : id \in DOMAIN coll /\ where_holds(where, coll[id]))
    IN SubSeq(matching, 1, Min(n_results, Len(matching)))

(***************************************************************************)
(* ProductSearch.search: Post-Filter & Ranker.                             *)
(***************************************************************************)
\* exclusion_hit with the term compared as written, without lower()
exclusion_hit_case_sensitive(metadata, dietary_exclusions) ==
    /\ Truthy(dietary_exclusions)
    /\ \E i \in DOMAIN dietary_exclusions :
          In(dietary_exclusions[i], lower(metadata.ingredients))

\* product_search.py:278-282
exclusion_hit(metadata, dietary_exclusions) ==
    /\ Truthy(dietary_exclusions)
    /\ \E i \in DOMAIN dietary_exclusions :
          In(lower(dietary_exclusions[i]), lower(metadata.ingredients))

\* product_search.py:285-295
requirement_miss(metadata, dietary_requirements) ==
    /\ Truthy(dietary_requirements)
    /\ LET ingredients_str == lower(metadata.ingredients)
       IN IF \E i \in DOMAIN dietary_requirements : lower(dietary_requirements[i]) = grain
          THEN ~ \E g \in DOMAIN PostFilterGrains : In(PostFilterGrains[g], ingredients_str)
          ELSE ~ \A i \in DOMAIN dietary_requirements :
                     In(lower(dietary_requirements[i]), ingredients_str)

\* similarity clamped at zero for distances beyond 1
similarity_clamped(distance) == IF distance > 100 THEN 0 ELSE 100 - distance

\* distances are hundredths: similarity = 1 - distance
similarity(distance) == 100 - distance

format_result(cand) ==
    [id |-> cand.id,
     name |-> cand.metadata.name,
     similarity |-> similarity(cand.distance),
     brand |-> cand.metadata.brand,
     price |-> cand.metadata.price,
     target_pet |-> cand.metadata.target_pet,
     ingredients |-> cand.metadata.ingredients]

\* post_filter that stops one accepted candidate too late
RECURSIVE post_filter_late_break(_, _, _, _, _, _)
post_filter_late_break(cands, i, formatted_results, dietary_exclusions, dietary_requirements, max_results) ==
    IF i > Len(cands) THEN formatted_results
    ELSE IF \/ exclusion_hit(cands[i].metadata, dietary_exclusions)
            \/ requirement_miss(cands[i].metadata, dietary_requirements)
    THEN post_filter_late_break(cands, i + 1, formatted_results,
                                dietary_exclusions, dietary_requirements, max_results)
    ELSE LET appended == Append(formatted_results, format_result(cands[i]))
         IN IF Len(appended) > max_results THEN appended
            ELSE post_filter_late_break(cands, i + 1, appended,
                                        dietary_exclusions, dietary_requirements, max_results)

\* the loop of product_search.py:274-315 from candidate i on
RECURSIVE post_filter(_, _, _, _, _, _)
post_filter(cands, i, formatted_results, dietary_exclusions, dietary_requirements, max_results) ==
    IF i > Len(cands) THEN formatted_results
    ELSE IF \/ exclusion_hit(cands[i].metadata, dietary_exclusions)
            \/ requirement_miss(cands[i].metadata, dietary_requirements)
    THEN post_filter(cands, i + 1, formatted_results,
                     dietary_exclusions, dietary_requirements, max_results)
    ELSE LET appended == Append(formatted_results, format_result(cands[i]))
         IN IF Len(appended) >= max_results THEN appended
            ELSE post_filter(cands, i + 1, appended,
                             dietary_exclusions, dietary_requirements, max_results)

(***************************************************************************)
(* ProductSearch.search as a whole.  args is the argument record; the      *)
(* collaborators' behaviour is given by embed_fail_at (the embedding call  *)
(* that raises, 0 for none), store_ok (the store answers) and answer (the  *)
(* candidates it answers with).  The value is a record of what the call    *)
(* did:                                                                    *)
(* the embedding calls it made, the store queries it issued, the error it  *)
(* raised (NoError for a normal return) and the list it returned.          *)
(***************************************************************************)
NoError == ""

\* product_search.py:171-173, the text embedded for a requirement
boost_text(requirement) ==
    IF lower(requirement) = grain THEN <<"w", "h", "o", "l", "e", " ", "g", "r", "a", "i", "n", " ", "r", "i", "c", "e", " ", "b", "a", "r", "l", "e", "y", " ", "o", "a", "t", "s", " ", "w", "h", "e", "a", "t">> ELSE requirement

\* the texts create_contrastive_embedding embeds, in call order
embedding_inputs(args) ==
    <<args.query>>
    \o (IF Truthy(args.dietary_exclusions) THEN args.dietary_exclusions ELSE <<>>)
    \o (IF Truthy(args.dietary_requirements)
        THEN [i \in DOMAIN args.dietary_requirements |-> boost_text(args.dietary_requirements[i])]
        ELSE <<>>)

contrastive(args) == Truthy(args.dietary_exclusions) \/ Truthy(args.dietary_requirements)

\* distance of the i-th nearest candidate, in hundredths
rank_distance(i) == 10 * i

\* the store's answer: the items with these ids at these distances
store_answer(coll, ids, distances) ==
    [i \in DOMAIN ids |-> [id |-> ids[i], metadata |-> coll[ids[i]], distance |-> distances[i]]]

candidates(coll, ids) == store_answer(coll, ids, [i \in DOMAIN ids |-> rank_distance(i)])

\* search that asks the Vector Store for max_results candidates only
search_exact_fetch(args, coll, embed_fail_at, store_ok, answer) ==
    LET inputs == IF contrastive(args) THEN embedding_inputs(args) ELSE <<>>
        the_query == [mode |-> IF contrastive(args) THEN "query_embeddings" ELSE "query_texts",
                      where |-> where_filter(args.target_pet, args.dietary_exclusions),
                      n_results |-> args.max_results]
    IN IF embed_fail_at \in DOMAIN inputs
       THEN [raised |-> "EmbeddingUnavailable",
             embedded |-> SubSeq(inputs, 1, embed_fail_at),
             queries |-> <<>>,
             results |-> <<>>]
       ELSE [raised |-> IF store_ok THEN NoError ELSE "RetrievalUnavailable",
             embedded |-> inputs,
             queries |-> <<the_query>>,
             results |-> IF store_ok
                         THEN post_filter(answer, 1, <<>>,
                                          args.dietary_exclusions, args.dietary_requirements,
                                          args.max_results)
                         ELSE <<>>]

\* search that goes on with the vector composed so far when an embedding
\* call fails
search_partial(args, coll, embed_fail_at, store_ok, answer) ==
    LET inputs == IF contrastive(args) THEN embedding_inputs(args) ELSE <<>>
        the_query == [mode |-> IF contrastive(args) THEN "query_embeddings" ELSE "query_texts",
                      where |-> where_filter(args.target_pet, args.dietary_exclusions),
                      n_results |-> args.max_results * 3]
    IN [raised |-> IF store_ok THEN NoError ELSE "RetrievalUnavailable",
        embedded |-> IF embed_fail_at \in DOMAIN inputs
                     THEN SubSeq(inputs, 1, embed_fail_at) ELSE inputs,
        queries |-> <<the_query>>,
        results |-> IF store_ok
                    THEN post_filter(answer, 1, <<>>,
                                     args.dietary_exclusions, args.dietary_requirements,
                                     args.max_results)
                    ELSE <<>>]

search(args, coll, embed_fail_at, store_ok, answer) ==
    LET inputs == IF contrastive(args) THEN embedding_inputs(args) ELSE <<>>
        the_query == [mode |-> IF contrastive(args) THEN "query_embeddings" ELSE "query_texts",
                      where |-> where_filter(args.target_pet, args.dietary_exclusions),
                      n_results |-> args.max_results * 3]
    IN IF embed_fail_at \in DOMAIN inputs
       THEN [raised |-> "EmbeddingUnavailable",
             embedded |-> SubSeq(inputs, 1, embed_fail_at),
             queries |-> <<>>,
             results |-> <<>>]
       ELSE IF ~store_ok
       THEN [raised |-> "RetrievalUnavailable",
             embedded |-> inputs,
             queries |-> <<the_query>>,
             results |-> <<>>]
       ELSE [raised |-> NoError,
             embedded |-> inputs,
             queries |-> <<the_query>>,
             results |-> post_filter(answer, 1, <<>>,
                                     args.dietary_exclusions, args.dietary_requirements,
                                     args.max_results)]

(***************************************************************************)
(* Python dicts.                                                           *)
(***************************************************************************)
\* d.get(k)
get(d, k) == IF k \in DOMAIN d THEN d[k] ELSE None

\* d[k] = v
set_item(d, k, v) == [x \in DOMAIN d \cup {k} |-> IF x = k THEN v ELSE d[x]]

\* bool(d.get(k)) for a number-valued key: absent and 0 are falsy
truthy_number(d, k) == k \in DOMAIN d /\ d[k] # 0

(***************************************************************************)
(* ConversationMemory (memory.py:15-142).  A memory object is a record;    *)
(* each method is an operator from the object to the object after the      *)
(* call.  Timestamps are omitted: nothing reads them.                      *)
(***************************************************************************)
ConversationMemory(max_history) ==
    [max_history |-> max_history,
     messages |-> <<>>,
     last_query |-> None,
     last_results |-> <<>>,
     context |-> [current_pet |-> None,
                  current_exclusions |-> <<>>,
                  price_range |-> None,
                  last_brands_shown |-> <<>>]]

\* accumulate that keeps only the terms of the latest intent
accumulate_replacing(current_exclusions, dietary_exclusions) == dietary_exclusions

\* accumulate that tests each term against the list as the call found it
accumulate_against_old(current_exclusions, dietary_exclusions) ==
    current_exclusions
        \o SelectSeq(dietary_exclusions, LAMBDA term : term \notin Range(current_exclusions))

\* memory.py:53-55, append the terms not yet accumulated, in order
RECURSIVE accumulate(_, _)
accumulate(current_exclusions, dietary_exclusions) ==
    IF Len(dietary_exclusions) = 0 THEN current_exclusions
    ELSE accumulate(
            IF Head(dietary_exclusions) \in Range(current_exclusions)
            THEN current_exclusions
            ELSE Append(current_exclusions, Head(dietary_exclusions)),
            Tail(dietary_exclusions))

\* memory.py:66-67, messages[-max_history:] when the log is longer than
\* max_history; the slice [-0:] is the whole list
trim(messages, max_history) ==
    IF Len(messages) > max_history /\ max_history # 0
    THEN SubSeq(messages, Len(messages) - max_history + 1, Len(messages))
    ELSE messages

\* add_user_message that records the species and the price window only
add_user_message_without_exclusions(self, message, intent) ==
    LET appended == Append(self.messages,
                           [role |-> "user", content |-> message, intent |-> intent])
        context == self.context
        with_pet ==
            IF Truthy(intent) /\ Truthy(get(intent, "target_pet"))
            THEN [context EXCEPT !.current_pet = intent.target_pet]
            ELSE context
        with_price ==
            IF Truthy(intent) /\ truthy_number(intent, "price_max")
            THEN [with_pet EXCEPT !.price_range =
                     [max |-> intent.price_max,
                      min |-> IF "price_min" \in DOMAIN intent THEN intent.price_min ELSE 0]]
            ELSE with_pet
    IN [self EXCEPT !.messages = trim(appended, self.max_history),
                    !.context = with_price,
                    !.last_query = IF Truthy(intent) THEN intent ELSE @]

add_user_message(self, message, intent) ==
    LET appended == Append(self.messages,
                           [role |-> "user", content |-> message, intent |-> intent])
        context == self.context
        with_pet ==
            IF Truthy(intent) /\ Truthy(get(intent, "target_pet"))
            THEN [context EXCEPT !.current_pet = intent.target_pet]
            ELSE context
        with_exclusions ==
            IF Truthy(intent) /\ Truthy(get(intent, "dietary_exclusions"))
            THEN [with_pet EXCEPT !.current_exclusions = accumulate(@, intent.dietary_exclusions)]
            ELSE with_pet
        with_price ==
            IF Truthy(intent) /\ truthy_number(intent, "price_max")
            THEN [with_exclusions EXCEPT !.price_range =
                     [max |-> intent.price_max,
                      min |-> IF "price_min" \in DOMAIN intent THEN intent.price_min ELSE 0]]
            ELSE with_exclusions
    IN [self EXCEPT !.messages = trim(appended, self.max_history),
                    !.context = with_price,
                    !.last_query = IF Truthy(intent) THEN intent ELSE @]

\* get_conversation_summary that lists the price range before the exclusions
get_conversation_summary_price_first(self) ==
    LET context == self.context
        pet == IF Truthy(context.current_pet)
               THEN <<<<"S", "h", "o", "p", "p", "i", "n", "g", " ", "f", "o", "r", ":", " ">> \o context.current_pet>> ELSE <<>>
        exclusions == IF Truthy(context.current_exclusions)
                      THEN <<<<"E", "x", "c", "l", "u", "d", "i", "n", "g", ":", " ">> \o str_join(<<",", " ">>, context.current_exclusions)>>
                      ELSE <<>>
        price == IF Truthy(context.price_range)
                 THEN <<<<"P", "r", "i", "c", "e", " ", "r", "a", "n", "g", "e", ":", " ", "$">> \o str(context.price_range.min)
                            \o <<"-", "$">> \o str(context.price_range.max)>>
                 ELSE <<>>
        summary == pet \o price \o exclusions
    IN IF Truthy(summary) THEN str_join(<<" ", "|", " ">>, summary) ELSE <<"N", "o", " ", "a", "c", "t", "i", "v", "e", " ", "f", "i", "l", "t", "e", "r", "s">>

\* memory.py:131-142; the bounds of the window are whole numbers here
get_conversation_summary(self) ==
    LET context == self.context
        pet == IF Truthy(context.current_pet)
               THEN <<<<"S", "h", "o", "p", "p", "i", "n", "g", " ", "f", "o", "r", ":", " ">> \o context.current_pet>> ELSE <<>>
        exclusions == IF Truthy(context.current_exclusions)
                      THEN <<<<"E", "x", "c", "l", "u", "d", "i", "n", "g", ":", " ">> \o str_join(<<",", " ">>, context.current_exclusions)>>
                      ELSE <<>>
        price == IF Truthy(context.price_range)
                 THEN <<<<"P", "r", "i", "c", "e", " ", "r", "a", "n", "g", "e", ":", " ", "$">> \o str(context.price_range.min)
                            \o <<"-", "$">> \o str(context.price_range.max)>>
                 ELSE <<>>
        summary == pet \o exclusions \o price
    IN IF Truthy(summary) THEN str_join(<<" ", "|", " ">>, summary) ELSE <<"N", "o", " ", "a", "c", "t", "i", "v", "e", " ", "f", "i", "l", "t", "e", "r", "s">>

\* list(set(r.get("brand") for r in results if r.get("brand"))), in any order
brands_shown(results) ==
    Orderings({results[i].brand : i \in {j \in DOMAIN results : Truthy(results[j].brand)}})

\* add_bot_message that adds the brands of the results to the ones recorded
add_bot_message_accumulating(self, message, results) ==
    LET appended == [self EXCEPT !.messages =
                        Append(@, [role |-> "assistant", content |-> message])]
    IN IF Truthy(results)
       THEN {[appended EXCEPT !.last_results = results,
                              !.context.last_brands_shown = brands]
                : brands \in UNION {Orderings(Range(self.context.last_brands_shown) \cup Range(b))
                                       : b \in brands_shown(results)}}
       ELSE {appended}

\* the objects add_bot_message may leave (one per order of the brand list)
add_bot_message(self, message, results) ==
    LET appended == [self EXCEPT !.messages =
                        Append(@, [role |-> "assistant", content |-> message])]
    IN IF Truthy(results)
       THEN {[appended EXCEPT !.last_results = results,
                              !.context.last_brands_shown = brands]
                : brands \in brands_shown(results)}
       ELSE {appended}

RECURSIVE sum_prices(_)
sum_prices(results) ==
    IF Len(results) = 0 THEN 0 ELSE Head(results).price + sum_prices(Tail(results))

\* sum(r.get("price", 0) for r in last_results) / len(last_results)
avg_price(last_results) == sum_prices(last_results) \div Len(last_results)

cheaper_cue(query_lower) ==
    In(<<"c", "h", "e", "a", "p", "e", "r">>, query_lower) \/ In(<<"l", "e", "s", "s", " ", "e", "x", "p", "e", "n", "s", "i", "v", "e">>, query_lower)

premium_cue(query_lower) ==
    In(<<"m", "o", "r", "e", " ", "e", "x", "p", "e", "n", "s", "i", "v", "e">>, query_lower) \/ In(<<"p", "r", "e", "m", "i", "u", "m">>, query_lower)

additive_cue(query_lower) ==
    \E word \in {<<"a", "l", "s", "o">>, <<"t", "o", "o">>, <<"a", "d", "d", "i", "t", "i", "o", "n", "a", "l", "l", "y">>, <<"a", "n", "d">>} : In(word, query_lower)

brand_cue(query_lower) ==
    In(<<"d", "i", "f", "f", "e", "r", "e", "n", "t">>, query_lower) /\ In(<<"b", "r", "a", "n", "d">>, query_lower)

\* resolve_price that keeps a price bound the intent already holds
resolve_price_keeping(self, query_lower, intent) ==
    IF cheaper_cue(query_lower)
    THEN IF Truthy(self.last_results) /\ "price_max" \notin DOMAIN intent
         THEN set_item(intent, "price_max", (avg_price(self.last_results) * 8) \div 10)
         ELSE intent
    ELSE IF premium_cue(query_lower)
    THEN IF Truthy(self.last_results) /\ "price_min" \notin DOMAIN intent
         THEN set_item(intent, "price_min", (avg_price(self.last_results) * 12) \div 10)
         ELSE intent
    ELSE intent

\* memory.py:97-109
resolve_price(self, query_lower, intent) ==
    IF cheaper_cue(query_lower)
    THEN IF Truthy(self.last_results)
         THEN set_item(intent, "price_max", (avg_price(self.last_results) * 8) \div 10)
         ELSE intent
    ELSE IF premium_cue(query_lower)
    THEN IF Truthy(self.last_results)
         THEN set_item(intent, "price_min", (avg_price(self.last_results) * 12) \div 10)
         ELSE intent
    ELSE intent

\* resolve_pet that never inherits the context's species
resolve_pet_never(self, intent) == intent

\* resolve_pet that lets the context's species replace the intent's own
resolve_pet_sticky(self, intent) ==
    IF Truthy(self.context.current_pet)
    THEN set_item(intent, "target_pet", self.context.current_pet)
    ELSE intent

\* memory.py:111-114
resolve_pet(self, intent) ==
    IF ~Truthy(get(intent, "target_pet")) /\ Truthy(self.context.current_pet)
    THEN set_item(intent, "target_pet", self.context.current_pet)
    ELSE intent

\* resolve_exclusions that accumulates only into an intent with exclusions of its own
resolve_exclusions_when_given(self, query_lower, intent) ==
    IF additive_cue(query_lower) /\ "dietary_exclusions" \in DOMAIN intent
    THEN {set_item(intent, "dietary_exclusions", merged) :
             merged \in list_set(self.context.current_exclusions \o intent.dietary_exclusions)}
    ELSE {intent}

\* memory.py:116-122, one resolved intent per order of list(set(...))
resolve_exclusions(self, query_lower, intent) ==
    IF additive_cue(query_lower)
    THEN {set_item(intent, "dietary_exclusions", merged) :
             merged \in list_set(self.context.current_exclusions
                                 \o (IF "dietary_exclusions" \in DOMAIN intent
                                     THEN intent.dietary_exclusions ELSE <<>>))}
    ELSE {intent}

\* resolve_brands that gives way to the additive cue
resolve_brands_exclusive(self, query_lower, intent) ==
    IF brand_cue(query_lower) /\ ~additive_cue(query_lower)
    THEN set_item(intent, "exclude_brands", self.context.last_brands_shown)
    ELSE intent

\* memory.py:124-127
resolve_brands(self, query_lower, intent) ==
    IF brand_cue(query_lower)
    THEN set_item(intent, "exclude_brands", self.context.last_brands_shown)
    ELSE intent

\* the resolved intents resolve_reference_query may return
resolve_reference_query(self, query, intent) ==
    LET query_lower == lower(query)
    IN {resolve_brands(self, query_lower, r) :
           r \in resolve_exclusions(self, query_lower,
                                    resolve_pet(self, resolve_price(self, query_lower, intent)))}

(***************************************************************************)
(* CustomerMemory (memory.py:145-279): the SQLite tables customers and     *)
(* pets.  A table is the sequence of its rows in insertion order; the      *)
(* allergies column holds the JSON text of the list.                       *)
(***************************************************************************)
\* the items of json.dumps(xs) for a list of strings that need no escaping
RECURSIVE json_items(_)
json_items(xs) ==
    IF Len(xs) = 0 THEN <<>>
    ELSE IF Len(xs) = 1 THEN <<"\"">> \o xs[1] \o <<"\"">>
    ELSE <<"\"">> \o xs[1] \o <<"\"", ",", " ">> \o json_items(Tail(xs))

\* json.dumps(xs): '["chicken", "salmon"]'
json_dumps(xs) == <<"[">> \o json_items(xs) \o <<"]">>

\* the strings of a JSON array of strings, read from position i on
RECURSIVE json_strings(_, _, _, _, _)
json_strings(text, i, in_string, current, acc) ==
    IF i > Len(text) THEN acc
    ELSE IF text[i] = "\""
    THEN IF in_string
         THEN json_strings(text, i + 1, FALSE, <<>>, Append(acc, current))
         ELSE json_strings(text, i + 1, TRUE, <<>>, acc)
    ELSE IF in_string
    THEN json_strings(text, i + 1, TRUE, Append(current, text[i]), acc)
    ELSE json_strings(text, i + 1, FALSE, current, acc)

\* json.loads(text) for the text of an array of strings
json_loads(text) == json_strings(text, 1, FALSE, <<>>, <<>>)

\* SELECT id FROM customers WHERE email = ? finds a row
has_customer(customers_table, email) ==
    \E i \in DOMAIN customers_table : customers_table[i].email = email

\* the id of the first row with this email
customer_id_of(customers_table, email) ==
    customers_table[CHOOSE i \in DOMAIN customers_table :
                        /\ customers_table[i].email = email
                        /\ \A j \in 1..(i - 1) : customers_table[j].email # email].id

\* the customers table after get_or_create_customer(email); the call returns
\* customer_id_of this table
get_or_create_customer(customers_table, email) ==
    IF has_customer(customers_table, email)
    THEN customers_table
    ELSE Append(customers_table, [id |-> Len(customers_table) + 1, email |-> email])

\* save_pet_profile that updates the customer's row of the same name when
\* there is one
save_pet_profile_updating(pets_table, customer_id, pet_data) ==
    IF \E i \in DOMAIN pets_table :
          pets_table[i].customer_id = customer_id /\ pets_table[i].name = pet_data.name
    THEN [i \in DOMAIN pets_table |->
             IF pets_table[i].customer_id = customer_id /\ pets_table[i].name = pet_data.name
             THEN [pets_table[i] EXCEPT !.pet_type = pet_data.pet_type,
                                        !.allergies = json_dumps(pet_data.allergies)]
             ELSE pets_table[i]]
    ELSE Append(pets_table, [customer_id |-> customer_id,
                             name |-> pet_data.name,
                             pet_type |-> pet_data.pet_type,
                             allergies |-> json_dumps(pet_data.allergies)])

\* the pets table after save_pet_profile(customer_id, pet_data)
save_pet_profile(pets_table, customer_id, pet_data) ==
    Append(pets_table, [customer_id |-> customer_id,
                        name |-> pet_data.name,
                        pet_type |-> pet_data.pet_type,
                        allergies |-> json_dumps(pet_data.allergies)])

\* memory.py:246-268, the customer's rows with the allergies column decoded
get_customer_pets(pets_table, customer_id) ==
    LET rows == SelectSeq(pets_table, LAMBDA row : row.customer_id = customer_id)
    IN [i \in DOMAIN rows |->
           [rows[i] EXCEPT !.allergies = IF Truthy(@) THEN json_loads(@) ELSE <<>>]]

RECURSIVE all_allergies(_)
all_allergies(rows) ==
    IF Len(rows) = 0 THEN <<>> ELSE Head(rows).allergies \o all_allergies(Tail(rows))

\* the lists get_dietary_exclusions_for_customer may return
get_dietary_exclusions_for_customer(pets_table, customer_id) ==
    list_set(all_allergies(get_customer_pets(pets_table, customer_id)))

(***************************************************************************)
(* extract_search_intent (nlu.py:72-145).  The Intent Extractor is an      *)
(* external language model: llm is the record it answers with, or None    *)
(* when the call or the parsing of its answer raises.                      *)
(***************************************************************************)
extract_search_intent(user_query, llm) ==
    IF llm = None THEN [query |-> user_query] ELSE llm

(***************************************************************************)
(* The turns of the model: a user message and the intents the extractor    *)
(* may answer it with.                                                     *)
(***************************************************************************)
Utterances == {
    [message |-> <<"s", "a", "l", "m", "o", "n", "-", "f", "r", "e", "e", " ", "d", "o", "g", " ", "f", "o", "o", "d">>,
     intents |-> {[query |-> <<"d", "o", "g", " ", "f", "o", "o", "d">>, target_pet |-> <<"d", "o", "g">>,
                   dietary_exclusions |-> <<salmon>>]}],
    [message |-> <<"s", "h", "o", "w", " ", "m", "e", " ", "c", "h", "e", "a", "p", "e", "r", " ", "o", "p", "t", "i", "o", "n", "s">>,
     intents |-> {[query |-> <<"o", "p", "t", "i", "o", "n", "s">>]}],
    [message |-> <<"p", "r", "e", "m", "i", "u", "m", " ", "f", "o", "o", "d">>,
     intents |-> {[query |-> <<"f", "o", "o", "d">>, price_min |-> 20]}],
    [message |-> <<"c", "h", "e", "a", "p", "e", "r", " ", "p", "r", "e", "m", "i", "u", "m", " ", "f", "o", "o", "d">>,
     intents |-> {[query |-> <<"f", "o", "o", "d">>]}],
    [message |-> <<"M", "y", " ", "d", "o", "g", " ", "i", "s", " ", "a", "l", "l", "e", "r", "g", "i", "c", " ", "t", "o", " ", "c", "h", "i", "c", "k", "e", "n">>,
     intents |-> {[query |-> <<"d", "o", "g", " ", "f", "o", "o", "d">>, target_pet |-> <<"d", "o", "g">>,
                   dietary_exclusions |-> <<chicken>>]}],
    [message |-> <<"w", "i", "t", "h", "o", "u", "t", " ", "c", "h", "i", "c", "k", "e", "n", " ", "t", "o", "o">>,
     intents |-> {[query |-> <<"f", "o", "o", "d">>, dietary_exclusions |-> <<chicken>>]}],
    [message |-> <<"f", "o", "o", "d", " ", "w", "i", "t", "h", " ", "g", "r", "a", "i", "n", " ", "a", "n", "d", " ", "c", "h", "i", "c", "k", "e", "n">>,
     intents |-> {[query |-> <<"f", "o", "o", "d">>, dietary_requirements |-> <<grain, chicken>>]}],
    [message |-> <<"w", "h", "a", "t", " ", "a", "b", "o", "u", "t", " ", "f", "o", "r", " ", "c", "a", "t", "s", " ", "i", "n", "s", "t", "e", "a", "d">>,
     intents |-> {[query |-> <<"c", "a", "t", " ", "f", "o", "o", "d">>, target_pet |-> <<"c", "a", "t">>]}] }

Emails == {"demo@example.com", "brian@example.com"}

(***************************************************************************)
(* PetProductChatbot (chatbot.py).                                         *)
(***************************************************************************)
\* f"Found {len(results)} products"
found_message(results) == <<"F", "o", "u", "n", "d", " ">> \o str(Len(results)) \o <<" ", "p", "r", "o", "d", "u", "c", "t", "s">>

\* chatbot.py:86
max_results == 5

\* chatbot.py:27, ConversationMemory() with its default max_history
default_max_history == 10

\* chatbot.py:116
allergy_phrase(message) ==
    LET message_lower == lower(message)
    IN \/ In(<<"a", "l", "l", "e", "r", "g", "i", "c">>, message_lower)
       \/ In(<<"c", "a", "n", "'", "t", " ", "e", "a", "t">>, message_lower)
       \/ In(<<"c", "a", "n", "n", "o", "t", " ", "e", "a", "t">>, message_lower)

\* chatbot.py:118-125
pet_data(intent) ==
    [name |-> <<"P", "e", "t">>,
     pet_type |-> IF "target_pet" \in DOMAIN intent THEN intent.target_pet ELSE <<"d", "o", "g">>,
     allergies |-> IF "dietary_exclusions" \in DOMAIN intent
                   THEN intent.dietary_exclusions ELSE <<>>]

\* merge_saved that appends the saved exclusions without removing duplicates
merge_saved_appending(resolved_intent, saved_exclusions) ==
    LET existing_exclusions ==
            IF "dietary_exclusions" \in DOMAIN resolved_intent
            THEN resolved_intent.dietary_exclusions ELSE <<>>
    IN {IF saved_exclusions # <<>>
        THEN set_item(resolved_intent, "dietary_exclusions", existing_exclusions \o saved_exclusions)
        ELSE resolved_intent}

\* merge_saved that leaves the saved exclusions out
merge_saved_skipped(resolved_intent, saved_exclusions) == {resolved_intent}

\* chatbot.py:74-77, the intents the merge with the saved exclusions may give
merge_saved(resolved_intent, saved_exclusions) ==
    LET existing_exclusions ==
            IF "dietary_exclusions" \in DOMAIN resolved_intent
            THEN resolved_intent.dietary_exclusions ELSE <<>>
    IN {IF merged_exclusions # existing_exclusions
        THEN set_item(resolved_intent, "dietary_exclusions", merged_exclusions)
        ELSE resolved_intent
           : merged_exclusions \in list_set(existing_exclusions \o saved_exclusions)}

\* search_args that passes the brands to avoid as exclusions
search_args_excluding_brands(resolved_intent, user_message) ==
    [query |-> IF "query" \in DOMAIN resolved_intent THEN resolved_intent.query ELSE user_message,
     dietary_exclusions |-> get(resolved_intent, "dietary_exclusions")
                                \o get(resolved_intent, "exclude_brands"),
     dietary_requirements |-> get(resolved_intent, "dietary_requirements"),
     target_pet |-> get(resolved_intent, "target_pet"),
     max_results |-> max_results]

\* chatbot.py:81-87, the arguments of the search call
search_args(resolved_intent, user_message) ==
    [query |-> IF "query" \in DOMAIN resolved_intent THEN resolved_intent.query ELSE user_message,
     dietary_exclusions |-> get(resolved_intent, "dietary_exclusions"),
     dietary_requirements |-> get(resolved_intent, "dietary_requirements"),
     target_pet |-> get(resolved_intent, "target_pet"),
     max_results |-> max_results]

(***************************************************************************)
(* State.                                                                  *)
(*   chatbots    session -> the PetProductChatbot object, None before its  *)
(*               construction: customer_id, saved_exclusions, conversation *)
(*   customers, pets   the tables of customer_memory.db                    *)
(*   collection  the vector store's items, id -> metadata                  *)
(*   turns       the number of chat calls made so far                      *)
(*   last_call   what the most recent chat call did and how it ended       *)
(*   born        session -> the number of pet rows persisted when the      *)
(*               session was constructed (a history variable)              *)
(*   probe       a single call of ProductSearch.search on its own: its     *)
(*               arguments, the failures of its collaborators, the Vector  *)
(*               Store's answer and what the call did                      *)
(*   memory      a ConversationMemory object used on its own, with every   *)
(*               entry ever appended to its log and the results of its     *)
(*               latest add_bot_message call (history variables) and its   *)
(*               latest resolve_reference_query call                       *)
(*   inflight    session -> the chat calls on it that have resolved their  *)
(*               intent and have not returned yet, each with the context   *)
(*               its resolution read                                       *)
(***************************************************************************)
VARIABLES chatbots, customers, pets, collection, turns, last_call, born, probe, memory,
          inflight

vars == <<chatbots, customers, pets, collection, turns, last_call, born, probe, memory,
         inflight>>

Sessions == 1..MaxSessions

Init ==
    /\ chatbots = [s \in Sessions |-> None]
    /\ customers = <<>>
    /\ pets = <<>>
    /\ collection = <<>>
    /\ turns = 0
    /\ last_call = None
    /\ born = [s \in Sessions |-> 0]
    /\ probe = None
    /\ memory = None
    /\ inflight = [s \in Sessions |-> {}]

\* PetProductChatbot(customer_email), chatbot.py:21-47; sessions are
\* constructed in the order of their numbers
NewChatbot(s, customer_email) ==
    /\ chatbots[s] = None
    /\ \A t \in 1..(s - 1) : chatbots[t] # None
    /\ customers' = get_or_create_customer(customers, customer_email)
    /\ collection' = load_products
    /\ \E saved_exclusions \in
            get_dietary_exclusions_for_customer(pets, customer_id_of(customers', customer_email)) :
          chatbots' = [chatbots EXCEPT ![s] =
              [customer_id |-> customer_id_of(customers', customer_email),
               saved_exclusions |-> saved_exclusions,
               conversation |-> ConversationMemory(default_max_history)]]
    /\ born' = [born EXCEPT ![s] = Len(pets)]
    /\ UNCHANGED <<pets, turns, last_call, probe, memory, inflight>>

\* what a chat call did: the extractor's failure, the intent before and after
\* resolution and merge, the arguments of the search call, the error the call
\* raised (NoError if it returned) and the results it returned
\* chatbot.py:64-97, the calls chat makes on its collaborators, in the order
\* of its statements
ChatOrder ==
    <<"resolve_reference_query", "merge", "search", "add_user_message", "add_bot_message",
      "save_pet_profile">>

\* the calls a chat call has made when it returns or raises: an error of the
\* search leaves chat at line 80, the profile is written on an allergy
\* phrase only (chatbot.py:116)
steps_done(user_message, raised) ==
    IF raised \in {"EmbeddingUnavailable", "RetrievalUnavailable"}
    THEN SubSeq(ChatOrder, 1, 3)
    ELSE IF allergy_phrase(user_message) THEN ChatOrder ELSE SubSeq(ChatOrder, 1, 5)

call_record(s, user_message, llm, raw_intent, resolved_intent, args, raised, results, context) ==
    [session |-> s, message |-> user_message, extractor_failed |-> (llm = None),
     raw |-> raw_intent, intent |-> resolved_intent, args |-> args,
     raised |-> raised, results |-> results, context |-> context,
     steps |-> steps_done(user_message, raised)]

\* conversation_after with the assistant entry recorded before the user entry
conversation_after_bot_first(conversation, user_message, resolved_intent, out) ==
    IF out.raised # NoError
    THEN {conversation}
    ELSE {add_user_message(c, user_message, resolved_intent) :
             c \in add_bot_message(conversation, found_message(out.results), out.results)}

\* conversation_after with the user entry recorded before the search is made
conversation_after_eager(conversation, user_message, resolved_intent, out) ==
    IF out.raised # NoError
    THEN {add_user_message(conversation, user_message, resolved_intent)}
    ELSE add_bot_message(add_user_message(conversation, user_message, resolved_intent),
                         found_message(out.results), out.results)

\* chatbot.py:80-94: the conversation objects steps 4 and 5 may leave; a
\* search that raises leaves chat before step 5
conversation_after(conversation, user_message, resolved_intent, out) ==
    IF out.raised # NoError
    THEN {conversation}
    ELSE add_bot_message(add_user_message(conversation, user_message, resolved_intent),
                         found_message(out.results), out.results)

\* SaveStep that writes the row and keeps the cache of the construction
SaveStep_without_refresh(s, self, user_message, resolved_intent, fault) ==
    IF ~allergy_phrase(user_message) \/ fault = "profile"
    THEN /\ chatbots' = [chatbots EXCEPT ![s] = self]
         /\ pets' = pets
    ELSE /\ pets' = save_pet_profile(pets, self.customer_id, pet_data(resolved_intent))
         /\ chatbots' = [chatbots EXCEPT ![s] = self]

\* chatbot.py:96-133 after the context update: the profile write and the
\* refresh of the cached exclusions.  fault = "profile" makes the write raise.
SaveStep(s, self, user_message, resolved_intent, fault) ==
    IF ~allergy_phrase(user_message) \/ fault = "profile"
    THEN /\ chatbots' = [chatbots EXCEPT ![s] = self]
         /\ pets' = pets
    ELSE /\ pets' = save_pet_profile(pets, self.customer_id, pet_data(resolved_intent))
         /\ \E saved_exclusions \in get_dietary_exclusions_for_customer(pets', self.customer_id) :
               chatbots' = [chatbots EXCEPT ![s] =
                               [self EXCEPT !.saved_exclusions = saved_exclusions]]

\* chatbot.py:72-103, steps 3 to 6 of chat on the intent that step 2
\* resolved: the merge, the search, the context update and the profile write
Respond(s, user_message, llm, raw_intent, resolved, order, fault) ==
    \E self \in {chatbots[s]} :
       \E resolved_intent \in merge_saved(resolved, self.saved_exclusions) :
       \E args \in {search_args(resolved_intent, user_message)} :
       \* the Embedding Provider is called, and so can fail, in a contrastive search only
       (fault = "embedding" => contrastive(args)) /\
       \E ids \in {nearest(collection, where_filter(args.target_pet, args.dietary_exclusions),
                          args.max_results * 3, order)} :
       \E out \in {search(args, collection,
                          IF fault = "embedding" THEN 1 ELSE 0, fault # "store",
                          candidates(collection, ids))} :
       \E conversation \in
              conversation_after(self.conversation, user_message, resolved_intent, out) :
          IF out.raised # NoError
          THEN /\ chatbots' = [chatbots EXCEPT ![s].conversation = conversation]
               /\ pets' = pets
               /\ last_call' = call_record(s, user_message, llm, raw_intent,
                                           resolved_intent, args, out.raised, None, None)
          ELSE /\ SaveStep(s, [self EXCEPT !.conversation = conversation],
                           user_message, resolved_intent, fault)
               /\ last_call' =
                     IF allergy_phrase(user_message) /\ fault = "profile"
                     THEN call_record(s, user_message, llm, raw_intent, resolved_intent,
                                      args, "ProfileStoreUnavailable", None, None)
                     ELSE call_record(s, user_message, llm, raw_intent, resolved_intent,
                                      args, NoError, out.results,
                                      get_conversation_summary(conversation))

\* PetProductChatbot.chat(user_message), chatbot.py:49-103, from the call to
\* its return or to the error it raises.  llm is the extractor's answer,
\* order the store's ranking of its items for this query, and fault names
\* the collaborator that fails in this turn, if any.
Chat(s, user_message, llm, order, fault) ==
    /\ turns < MaxTurns
    /\ chatbots[s] # None
    /\ turns' = turns + 1
    /\ UNCHANGED <<customers, collection, born, probe, memory, inflight>>
    /\ \E raw_intent \in {extract_search_intent(user_message, llm)} :
       \E resolved \in
              resolve_reference_query(chatbots[s].conversation, user_message, raw_intent) :
          Respond(s, user_message, llm, raw_intent, resolved, order, fault)

\* the rankings the store answers with in a session
SessionOrders == {<<"p1", "p2", "p3">>, <<"p3", "p2", "p1">>}

Faults == {"none", "embedding", "store", "profile"}

\* a turn of one of the sessions S, with a message of U
Turn(S, U, O, F) ==
    \E s \in S, u \in U, fault \in F :
       \* the Profile Store is written, and so can fail, on an allergy turn only;
       \* a store that fails answers with no ranking
       /\ fault = "profile" => allergy_phrase(u.message)
       /\ \E order \in (IF fault = "store" THEN {<<>>} ELSE O) :
          \E llm \in u.intents \cup {None} : Chat(s, u.message, llm, order, fault)

(***************************************************************************)
(* Spec: one customer in one session, every message.                       *)
(***************************************************************************)
Next ==
    \/ NewChatbot(1, "demo@example.com")
    \/ Turn({1}, Utterances, SessionOrders, Faults)

Spec == Init /\ [][Next]_vars

(***************************************************************************)
(* ProfileSpec: sessions of two customers, created at any time, with the   *)
(* messages that write and read the long-term exclusions.                  *)
(***************************************************************************)
ProfileUtterances ==
    {u \in Utterances : u.message \in {<<"M", "y", " ", "d", "o", "g", " ", "i", "s", " ", "a", "l", "l", "e", "r", "g", "i", "c", " ", "t", "o", " ", "c", "h", "i", "c", "k", "e", "n">>,
                                       <<"s", "a", "l", "m", "o", "n", "-", "f", "r", "e", "e", " ", "d", "o", "g", " ", "f", "o", "o", "d">>,
                                       <<"s", "h", "o", "w", " ", "m", "e", " ", "c", "h", "e", "a", "p", "e", "r", " ", "o", "p", "t", "i", "o", "n", "s">>}}
       \cup {[message |-> <<"M", "y", " ", "c", "a", "t", " ", "c", "a", "n", "n", "o", "t", " ", "e", "a", "t", " ", "s", "a", "l", "m", "o", "n">>,
              intents |-> {[query |-> <<"c", "a", "t", " ", "f", "o", "o", "d">>, target_pet |-> <<"c", "a", "t">>,
                            dietary_exclusions |-> <<salmon>>]}]}

ProfileNext ==
    \/ \E s \in Sessions, customer_email \in Emails : NewChatbot(s, customer_email)
    \/ Turn(Sessions, ProfileUtterances, {<<"p1", "p2", "p3">>}, {"none", "profile"})

ProfileSpec == Init /\ [][ProfileNext]_vars

(***************************************************************************)
(* TurnSpec: the chat calls of several sessions in two steps each, the     *)
(* resolution of the intent against the context (chatbot.py:60-67) and     *)
(* the rest of the call with its context update (chatbot.py:72-103), so    *)
(* that the steps of different sessions interleave.                        *)
(***************************************************************************)
TurnUtterances ==
    {u \in Utterances : u.message \in {<<"M", "y", " ", "d", "o", "g", " ", "i", "s", " ", "a", "l", "l", "e", "r", "g", "i", "c", " ", "t", "o", " ", "c", "h", "i", "c", "k", "e", "n">>,
                                       <<"s", "h", "o", "w", " ", "m", "e", " ", "c", "h", "e", "a", "p", "e", "r", " ", "o", "p", "t", "i", "o", "n", "s">>}}

\* a session that takes a call while another call on it has not returned
returned_or_not(s) == TRUE

\* app.py:232: the script run of a session calls chat and waits for its
\* return, so a session takes a call when every call on it has returned
returned(s) == inflight[s] = {}

\* the number of calls that have resolved and not returned
RECURSIVE in_flight(_)
in_flight(S) ==
    IF S = {} THEN 0
    ELSE LET s == CHOOSE t \in S : TRUE
         IN Cardinality(inflight[s]) + in_flight(S \ {s})

\* chatbot.py:60-67, steps 1 and 2 of chat(user_message) on session s
ResolveStep(s, user_message, llm) ==
    /\ chatbots[s] # None
    /\ returned(s)
    /\ turns + in_flight(Sessions) < MaxTurns
    /\ \E raw_intent \in {extract_search_intent(user_message, llm)} :
       \E resolved \in
              resolve_reference_query(chatbots[s].conversation, user_message, raw_intent) :
          inflight' = [inflight EXCEPT ![s] = @ \cup
                          {[user_message |-> user_message, llm |-> llm,
                            raw_intent |-> raw_intent, resolved |-> resolved,
                            read |-> chatbots[s].conversation]}]
    /\ UNCHANGED <<chatbots, customers, pets, collection, turns, last_call, born, probe,
                   memory>>

\* chatbot.py:72-103, the rest of a call on session s, to its return
UpdateStep(s, order, fault) ==
    \E call \in inflight[s] :
       /\ fault = "profile" => allergy_phrase(call.user_message)
       /\ inflight' = [inflight EXCEPT ![s] = @ \ {call}]
       /\ turns' = turns + 1
       /\ UNCHANGED <<customers, collection, born, probe, memory>>
       /\ Respond(s, call.user_message, call.llm, call.raw_intent, call.resolved,
                  order, fault)

TurnNext ==
    \/ \E s \in Sessions, customer_email \in Emails : NewChatbot(s, customer_email)
    \/ \E s \in Sessions, u \in TurnUtterances :
          \E llm \in u.intents \cup {None} : ResolveStep(s, u.message, llm)
    \/ \E s \in Sessions, fault \in {"none", "profile"} :
          UpdateStep(s, <<"p1", "p2", "p3">>, fault)

TurnSpec == Init /\ [][TurnNext]_vars

(***************************************************************************)
(* StoreSpec: the CustomerMemory tables under get_or_create_customer and   *)
(* save_pet_profile calls for two customers, together with the allergy     *)
(* turns of a session of the first of them; the pets table has at most     *)
(* MaxCalls rows.                                                          *)
(***************************************************************************)
PetProfiles ==
    {[name |-> <<"P", "e", "t">>, pet_type |-> <<"d", "o", "g">>, allergies |-> allergies] :
        allergies \in {<<>>, <<chicken>>, <<salmon, chicken>>, <<chicken, chicken>>, <<grain>>}}

StoreUtterances == {u \in Utterances : u.message = <<"M", "y", " ", "d", "o", "g", " ", "i", "s", " ", "a", "l", "l", "e", "r", "g", "i", "c", " ", "t", "o", " ", "c", "h", "i", "c", "k", "e", "n">>}

\* customer_memory.get_or_create_customer(email=email)
GetOrCreateCustomer(email) ==
    /\ customers' = get_or_create_customer(customers, email)
    /\ UNCHANGED <<chatbots, pets, collection, turns, last_call, born, probe, memory, inflight>>

\* customer_memory.save_pet_profile(customer_id, pet_data)
SavePetProfile(customer_id, profile) ==
    /\ customer_id \in 1..Len(customers)
    /\ Len(pets) < MaxCalls
    /\ pets' = save_pet_profile(pets, customer_id, profile)
    /\ UNCHANGED <<chatbots, customers, collection, turns, last_call, born, probe, memory,
                   inflight>>

\* an allergy turn of the session, while the pets table has room for its row
StoreTurn ==
    /\ Len(pets) < MaxCalls
    /\ Turn({1}, StoreUtterances, {<<"p1", "p2", "p3">>}, {"none"})

StoreNext ==
    \/ \E email \in Emails : GetOrCreateCustomer(email)
    \/ \E customer_id \in 1..Cardinality(Emails), profile \in PetProfiles :
          SavePetProfile(customer_id, profile)
    \/ NewChatbot(1, "demo@example.com")
    \/ StoreTurn

StoreSpec == Init /\ [][StoreNext]_vars

(***************************************************************************)
(* CustomerSpec: get_or_create_customer calls of several sessions on the   *)
(* one database file, each call in two steps, its SELECT (memory.py:210-   *)
(* 211) and the rest (212-221).  Every call opens its own connection and   *)
(* the SELECT runs outside a transaction, so the steps of calls of         *)
(* different sessions interleave; a session makes one call at a time.      *)
(* inflight[s] holds the call of session s that has selected and not       *)
(* returned, last_call the last return.                                    *)
(***************************************************************************)
\* SELECT id FROM customers WHERE email = ?; fetchone(): the row, or None
select_customer(customers_table, email) ==
    IF has_customer(customers_table, email)
    THEN <<customer_id_of(customers_table, email)>>
    ELSE None

\* INSERT INTO customers (name, email): email is UNIQUE (memory.py:169), so
\* the statement raises when a row has the email
insert_customer(customers_table, email) ==
    IF has_customer(customers_table, email)
    THEN [raised |-> "IntegrityError", customers |-> customers_table, lastrowid |-> 0]
    ELSE [raised |-> NoError,
          customers |-> Append(customers_table,
                               [id |-> Len(customers_table) + 1, email |-> email]),
          lastrowid |-> Len(customers_table) + 1]

\* memory.py:207-211, the call of session s up to fetchone()
SelectCustomer(s, email) ==
    /\ inflight[s] = {}
    /\ turns + in_flight(Sessions) < MaxCalls
    /\ inflight' = [inflight EXCEPT ![s] =
                       {[email |-> email, row |-> select_customer(customers, email)]}]
    /\ UNCHANGED <<chatbots, customers, pets, collection, turns, last_call, born, probe,
                   memory>>

\* memory.py:213-221, the rest of the call of session s, to its return or
\* to the error the INSERT raises
InsertOrReturnCustomer(s) ==
    \E call \in inflight[s] :
       /\ inflight' = [inflight EXCEPT ![s] = {}]
       /\ turns' = turns + 1
       /\ IF Truthy(call.row)
          THEN /\ customers' = customers
               /\ last_call' = [session |-> s, email |-> call.email, raised |-> NoError,
                                inserted |-> FALSE, returned |-> call.row[1]]
          ELSE \E insert \in {insert_customer(customers, call.email)} :
                  /\ customers' = insert.customers
                  /\ last_call' = [session |-> s, email |-> call.email,
                                   raised |-> insert.raised,
                                   inserted |-> (insert.raised = NoError),
                                   returned |-> insert.lastrowid]
       /\ UNCHANGED <<chatbots, pets, collection, born, probe, memory>>

CustomerNext ==
    \/ \E s \in Sessions, email \in Emails : SelectCustomer(s, email)
    \/ \E s \in Sessions : InsertOrReturnCustomer(s)

CustomerSpec == Init /\ [][CustomerNext]_vars

(***************************************************************************)
(* SearchSpec: one call of ProductSearch.search on its own, for every      *)
(* argument record of ProbeArgs, every collection of ProbeCollections      *)
(* (the loaded one, and ones whose allergen flags are stale), every        *)
(* ranking of the store and every failure of a collaborator.               *)
(***************************************************************************)
ProbeExclusions ==
    {None, <<salmon>>, <<<<"S", "A", "L", "M", "O", "N">>, chicken>>, <<<<"o", "a", "t">>>>, <<grain>>, <<<<"b", "e", "e", "f">>, <<"c", "o", "r", "n">>>>}

ProbeRequirements ==
    {None, <<grain>>, <<chicken>>, <<<<"G", "r", "a", "i", "n">>, chicken>>, <<<<"R", "i", "c", "e">>, salmon>>}

ProbeArgs ==
    {[query |-> <<"f", "o", "o", "d">>, dietary_exclusions |-> e, dietary_requirements |-> r,
      target_pet |-> p, max_results |-> m] :
        e \in ProbeExclusions, r \in ProbeRequirements,
        p \in {None, <<"d", "o", "g">>}, m \in {1, 2, max_results}}

ProbeCollections ==
    {load_products,
     [load_products EXCEPT !["p1"].has_salmon = FALSE],
     [load_products EXCEPT !["p2"].has_chicken = FALSE, !["p3"].has_grain = FALSE]}

AllOrders == Orderings(ProductIds)

\* the distances of the nearest, second and third item of an answer, in
\* hundredths: the store answers nearest first; cosine distances go up to 2
DistanceProfiles == {<<10, 20, 30>>, <<10, 10, 120>>, <<0, 100, 100>>}

SearchInit ==
    /\ chatbots = [s \in Sessions |-> None]
    /\ customers = <<>>
    /\ pets = <<>>
    /\ collection \in ProbeCollections
    /\ turns = 0
    /\ last_call = None
    /\ born = [s \in Sessions |-> 0]
    /\ \E args \in ProbeArgs : probe = [args |-> args, fault |-> None, answer |-> None, out |-> None]
    /\ memory = None
    /\ inflight = [s \in Sessions |-> {}]

\* the call search(**probe.args)
Search ==
    /\ probe.out = None
    /\ \E order \in AllOrders, distances \in DistanceProfiles, store_ok \in BOOLEAN,
          embed_fail_at \in 0..Len(embedding_inputs(probe.args)) :
          LET ids == nearest(collection,
                             where_filter(probe.args.target_pet, probe.args.dietary_exclusions),
                             probe.args.max_results * 3, order)
              answer == store_answer(collection, ids, distances)
              failed == (contrastive(probe.args) /\ embed_fail_at # 0) \/ ~store_ok
          IN probe' = [probe EXCEPT
                 !.fault = [embed_fail_at |-> embed_fail_at, store_ok |-> store_ok],
                 !.answer = IF failed THEN None ELSE answer,
                 !.out = search(probe.args, collection, embed_fail_at, store_ok, answer)]
    /\ UNCHANGED <<chatbots, customers, pets, collection, turns, last_call, born, memory, inflight>>

SearchNext == Search

SearchSpec == SearchInit /\ [][SearchNext]_vars

(***************************************************************************)
(* MemorySpec: one ConversationMemory object on its own, constructed with  *)
(* a capacity of 1..MaxHistory, under any sequence of add_user_message,    *)
(* add_bot_message and resolve_reference_query calls.                      *)
(***************************************************************************)
MemoryMessages ==
    {u \in Utterances : u.message \in {<<"s", "a", "l", "m", "o", "n", "-", "f", "r", "e", "e", " ", "d", "o", "g", " ", "f", "o", "o", "d">>, <<"w", "i", "t", "h", "o", "u", "t", " ", "c", "h", "i", "c", "k", "e", "n", " ", "t", "o", "o">>}}
       \cup {[message |-> <<"n", "o", " ", "c", "h", "i", "c", "k", "e", "n", ",", " ", "r", "e", "a", "l", "l", "y", " ", "n", "o", " ", "c", "h", "i", "c", "k", "e", "n">>,
              intents |-> {[query |-> <<"f", "o", "o", "d">>, dietary_exclusions |-> <<chicken, chicken>>]}]}

MemoryResults ==
    {<<>>, <<format_result([id |-> "p2", metadata |-> load_products["p2"], distance |-> rank_distance(1)])>>}

\* the texts resolve_reference_query is called with: every cue alone, cues
\* together, and no cue
ResolveTexts ==
    {<<"s", "h", "o", "w", " ", "m", "e", " ", "d", "i", "f", "f", "e", "r", "e", "n", "t", " ", "b", "r", "a", "n", "d", "s">>, <<"c", "h", "e", "a", "p", "e", "r", " ", "p", "r", "e", "m", "i", "u", "m", " ", "f", "o", "o", "d">>, <<"w", "i", "t", "h", "o", "u", "t", " ", "c", "h", "i", "c", "k", "e", "n", " ", "t", "o", "o">>,
     <<"w", "h", "a", "t", " ", "a", "b", "o", "u", "t", " ", "f", "o", "r", " ", "c", "a", "t", "s", " ", "i", "n", "s", "t", "e", "a", "d">>, <<"p", "r", "e", "m", "i", "u", "m", " ", "f", "o", "o", "d">>,
     <<"a", "l", "s", "o", " ", "c", "h", "e", "a", "p", "e", "r", ",", " ", "f", "r", "o", "m", " ", "a", " ", "d", "i", "f", "f", "e", "r", "e", "n", "t", " ", "b", "r", "a", "n", "d">>}

ResolveIntents ==
    {[query |-> <<"f", "o", "o", "d">>],
     [query |-> <<"f", "o", "o", "d">>, dietary_exclusions |-> <<chicken>>],
     [query |-> <<"c", "a", "t", " ", "f", "o", "o", "d">>, target_pet |-> <<"c", "a", "t">>, price_max |-> 50, price_min |-> 20]}

MemoryInit ==
    /\ chatbots = [s \in Sessions |-> None]
    /\ customers = <<>>
    /\ pets = <<>>
    /\ collection = <<>>
    /\ turns = 0
    /\ last_call = None
    /\ born = [s \in Sessions |-> 0]
    /\ probe = None
    /\ inflight = [s \in Sessions |-> {}]
    /\ \E max_history \in 1..MaxHistory :
          memory = [self |-> ConversationMemory(max_history), appended |-> <<>>,
                    shown |-> None, resolved |-> None]

\* memory.add_user_message(message, intent)
AddUserMessage ==
    /\ Len(memory.appended) < MaxCalls
    /\ \E u \in MemoryMessages : \E intent \in u.intents \cup {None} :
          memory' = [self |-> add_user_message(memory.self, u.message, intent),
                     appended |-> Append(memory.appended,
                                         [role |-> "user", content |-> u.message, intent |-> intent]),
                     shown |-> memory.shown,
                     resolved |-> None]
    /\ UNCHANGED <<chatbots, customers, pets, collection, turns, last_call, born, probe, inflight>>

\* memory.add_bot_message(message, results)
AddBotMessage ==
    /\ Len(memory.appended) < MaxCalls
    /\ \E results \in MemoryResults :
          \E self \in add_bot_message(memory.self, found_message(results), results) :
             memory' = [self |-> self,
                        appended |-> Append(memory.appended,
                                            [role |-> "assistant", content |-> found_message(results)]),
                        shown |-> [results |-> results],
                        resolved |-> None]
    /\ UNCHANGED <<chatbots, customers, pets, collection, turns, last_call, born, probe, inflight>>

\* resolve_call that works on the intent record itself, not on a copy
resolve_call_in_place(self, query, intent) ==
    {[self |-> self, intent |-> out, out |-> out] :
        out \in resolve_reference_query(self, query, intent)}

\* memory.py:84-129 as a call: the object and the caller's intent record as
\* the call leaves them, and the intent it returns.  The call works on
\* intent.copy() (line 93), assigns keys of the copy only, builds new lists
\* (line 120) and only reads self.
resolve_call(self, query, intent) ==
    {[self |-> self, intent |-> intent, out |-> out] :
        out \in resolve_reference_query(self, query, intent)}

\* memory.resolve_reference_query(query, intent); the call, the intent
\* record after it and the intent it returned are recorded
ResolveReferenceQuery ==
    /\ Len(memory.appended) < MaxCalls
    /\ memory.resolved = None
    /\ \E query \in ResolveTexts, intent \in ResolveIntents :
          \E call \in resolve_call(memory.self, query, intent) :
             memory' = [memory EXCEPT
                           !.self = call.self,
                           !.resolved = [query |-> query, intent |-> intent,
                                         after |-> call.intent, out |-> call.out]]
    /\ UNCHANGED <<chatbots, customers, pets, collection, turns, last_call, born, probe, inflight>>

MemoryNext == AddUserMessage \/ AddBotMessage \/ ResolveReferenceQuery

MemorySpec == MemoryInit /\ [][MemoryNext]_vars

(***************************************************************************)
(* Properties.                                                             *)
(***************************************************************************)
\* the ingredient text contains the term, case-insensitively
mentions(ingredients, term) == In(lower(term), lower(ingredients))

\* the terms of an optional list
terms(list) == Range(list)

\* the union of the allergy lists of a customer's persisted pet rows
long_term_set(pets_table, customer_id) ==
    UNION {Range(json_loads(pets_table[i].allergies)) :
              i \in {j \in DOMAIN pets_table : pets_table[j].customer_id = customer_id}}

\* the step is a chat call
ChatStep == turns' = turns + 1

\* C1 (SearchSpec): whenever search is called with a non-empty exclusion
\* list and returns, whatever the store answered, no returned result's
\* ingredient text contains an exclusion term as a case-insensitive substring.
ExclusionSafety ==
    (probe # None /\ probe.out # None /\ Truthy(probe.args.dietary_exclusions)) =>
        \A i \in DOMAIN probe.out.results :
           \A term \in terms(probe.args.dietary_exclusions) :
              ~mentions(probe.out.results[i].ingredients, term)

\* C1 witness: the store's nearest neighbour contains an exclusion term, and
\* the call still returned a result
ExclusionSafetyWitness ==
    /\ probe # None /\ probe.out # None
    /\ Truthy(probe.args.dietary_exclusions)
    /\ Len(probe.answer) >= 2
    /\ \E term \in terms(probe.args.dietary_exclusions) :
          mentions(probe.answer[1].metadata.ingredients, term)
    /\ Len(probe.out.results) >= 1

\* C2 (SearchSpec): every returned result satisfies every requirement term:
\* a term other than "grain" appears in its ingredient text, and for "grain"
\* one of the grain synonyms appears; all terms together.
RequirementSatisfaction ==
    (probe # None /\ probe.out # None) =>
        \A i \in DOMAIN probe.out.results :
           \A term \in terms(probe.args.dietary_requirements) :
              IF lower(term) = grain
              THEN \E g \in DOMAIN PostFilterGrains :
                      mentions(probe.out.results[i].ingredients, PostFilterGrains[g])
              ELSE mentions(probe.out.results[i].ingredients, term)

\* C3 (Spec): on every turn the exclusion list passed to search contains the
\* session's accumulated exclusions and the customer's long-term exclusions.
ExclusionsCarriedForward ==
    [][ChatStep =>
          LET self == chatbots[last_call'.session]
          IN terms(self.conversation.context.current_exclusions)
                \cup terms(self.saved_exclusions)
             \subseteq terms(last_call'.args.dietary_exclusions)]_vars

\* C4 (ProfileSpec): when a turn that states an allergy completes, its
\* resolved exclusions are in the customer's persisted long-term set; and
\* every search of a session constructed after such a turn, for the same
\* customer, has that turn's terms in its exclusion list, and no result of it
\* mentions them.
LongTermExclusionsSurvive ==
    [][ChatStep =>
          LET call == last_call'
              s == call.session
              customer == chatbots[s].customer_id
          IN /\ (call.raised = NoError /\ allergy_phrase(call.message)) =>
                   terms(get(call.intent, "dietary_exclusions"))
                      \subseteq long_term_set(pets', customer)
             /\ \A i \in 1..born[s] :
                   pets[i].customer_id = customer =>
                      \A term \in terms(json_loads(pets[i].allergies)) :
                         /\ term \in terms(call.args.dietary_exclusions)
                         /\ \A r \in DOMAIN call.results :
                               ~mentions(call.results[r].ingredients, term)]_vars

\* C4 witness: the second session, constructed after the first session's
\* allergy turn for the same customer, searched with "chicken" in its
\* exclusion list although the extractor's intent did not name it, and
\* returned results
LongTermExclusionsWitness ==
    /\ last_call # None
    /\ last_call.session = 2
    /\ last_call.raised = NoError
    /\ born[2] >= 1
    /\ pets[1].customer_id = chatbots[2].customer_id
    /\ chicken \in terms(json_loads(pets[1].allergies))
    /\ chicken \notin terms(get(last_call.raw, "dietary_exclusions"))
    /\ chicken \in terms(last_call.args.dietary_exclusions)
    /\ Len(last_call.results) >= 1

\* C5 (Spec): no step removes a term from a session's accumulated exclusion
\* set: the set after a turn is a superset of the set before it.
AccumulationMonotone ==
    [][\A s \in Sessions :
          chatbots[s] # None =>
             terms(chatbots[s].conversation.context.current_exclusions)
                \subseteq terms(chatbots'[s].conversation.context.current_exclusions)]_vars

\* C5 witness: two completed turns have accumulated two different terms
AccumulationWitness ==
    /\ turns = 2
    /\ chatbots[1] # None
    /\ Len(chatbots[1].conversation.messages) = 4
    /\ Cardinality(terms(chatbots[1].conversation.context.current_exclusions)) = 2

\* C6 (Spec): a turn whose search step fails (the Embedding Provider or the
\* Vector Store raises) ends with that error, and leaves the session's
\* conversation object (context, last results, last query, turn log) as it was.
FailedSearchLeavesContext ==
    [][(ChatStep /\ last_call'.raised \in {"EmbeddingUnavailable", "RetrievalUnavailable"}) =>
          chatbots'[last_call'.session].conversation
             = chatbots[last_call'.session].conversation]_vars

\* C6 witness: a search failed in a session whose earlier turn had left
\* exclusions, results and a log
FailedSearchWitness ==
    /\ last_call # None
    /\ last_call.raised = "RetrievalUnavailable"
    /\ LET conversation == chatbots[last_call.session].conversation
       IN /\ Len(conversation.messages) = 2
          /\ conversation.context.current_exclusions # <<>>
          /\ conversation.last_results # <<>>

\* C7 (Spec): a turn that ends in any error leaves the session's
\* conversation object as it was before the turn.
FailedTurnLeavesContext ==
    [][(ChatStep /\ last_call'.raised # NoError) =>
          chatbots'[last_call'.session].conversation
             = chatbots[last_call'.session].conversation]_vars

\* C8 (Spec): when the Intent Extractor fails during a turn, the turn ends
\* with an error and returns no results of a search with a fallback intent.
ExtractorFailurePropagates ==
    (last_call # None /\ last_call.extractor_failed) =>
        (last_call.raised # NoError /\ last_call.results = None)

\* C9 (Spec): after a completed turn whose search returned no result, the
\* context's last-shown brands are empty.
NoMatchesClearsBrands ==
    (last_call # None /\ last_call.raised = NoError /\ last_call.results = <<>>) =>
        chatbots[last_call.session].conversation.context.last_brands_shown = <<>>

\* C10 (Spec): with a previous result set of mean price P, a text that
\* signals "cheaper" resolves price_max to 0.8 x P and a text that signals
\* "more expensive" resolves price_min to 1.2 x P, whatever the intent held;
\* with no previous result set the intent's price fields stay as given.
ComparativePriceResolution ==
    [][ChatStep =>
          LET call == last_call'
              prev == chatbots[call.session].conversation.last_results
              text == lower(call.message)
          IN /\ (cheaper_cue(text) /\ prev # <<>>) =>
                   /\ "price_max" \in DOMAIN call.intent
                   /\ call.intent.price_max * 10 * Len(prev) = 8 * sum_prices(prev)
             /\ (premium_cue(text) /\ prev # <<>>) =>
                   /\ "price_min" \in DOMAIN call.intent
                   /\ call.intent.price_min * 10 * Len(prev) = 12 * sum_prices(prev)
             /\ prev = <<>> =>
                   \A k \in {"price_max", "price_min"} :
                      /\ k \in DOMAIN call.intent <=> k \in DOMAIN call.raw
                      /\ k \in DOMAIN call.raw => call.intent[k] = call.raw[k]]_vars

\* C10, amended (Spec): as C10, except that a text that signals "more
\* expensive" resolves price_min only when it does not also signal "cheaper".
ComparativePriceResolutionAmended ==
    [][ChatStep =>
          LET call == last_call'
              prev == chatbots[call.session].conversation.last_results
              text == lower(call.message)
          IN /\ (cheaper_cue(text) /\ prev # <<>>) =>
                   /\ "price_max" \in DOMAIN call.intent
                   /\ call.intent.price_max * 10 * Len(prev) = 8 * sum_prices(prev)
             /\ (premium_cue(text) /\ ~cheaper_cue(text) /\ prev # <<>>) =>
                   /\ "price_min" \in DOMAIN call.intent
                   /\ call.intent.price_min * 10 * Len(prev) = 12 * sum_prices(prev)
             /\ prev = <<>> =>
                   \A k \in {"price_max", "price_min"} :
                      /\ k \in DOMAIN call.intent <=> k \in DOMAIN call.raw
                      /\ k \in DOMAIN call.raw => call.intent[k] = call.raw[k]]_vars

\* C10 witness: after a turn whose three results have mean price 40, a
\* "premium" turn whose intent asked for price_min 20 is resolved to 48
ComparativePriceWitness ==
    /\ last_call # None
    /\ premium_cue(lower(last_call.message))
    /\ "price_min" \in DOMAIN last_call.raw
    /\ last_call.raw.price_min = 20
    /\ last_call.intent.price_min = 48

\* the candidates of the store's answer that the post-filter accepts, in
\* arrival order
accepted(answer, args) ==
    SelectSeq(answer, LAMBDA cand :
                 /\ ~exclusion_hit(cand.metadata, args.dietary_exclusions)
                 /\ ~requirement_miss(cand.metadata, args.dietary_requirements))

\* C11 (SearchSpec): the list search returns is the first max_results
\* candidates the post-filter accepts, in arrival order: never longer than
\* max_results, shorter only when fewer were accepted, and without any
\* rejected candidate.
TruncationWithoutPadding ==
    (probe # None /\ probe.out # None /\ probe.out.raised = NoError) =>
        LET kept == accepted(probe.answer, probe.args)
            results == probe.out.results
        IN /\ Len(results) = Min(probe.args.max_results, Len(kept))
           /\ \A i \in DOMAIN results :
                 /\ results[i].id = kept[i].id
                 /\ results[i].ingredients = kept[i].metadata.ingredients

\* C11 witness: the store answered with three candidates, one was rejected
\* and two accepted, and the call with max_results = 1 returned the first
\* accepted one only
TruncationWitness ==
    /\ probe # None /\ probe.out # None /\ probe.out.raised = NoError
    /\ probe.args.max_results = 1
    /\ Len(probe.answer) = 3
    /\ Len(accepted(probe.answer, probe.args)) = 2
    /\ Len(probe.out.results) = 1
    /\ probe.out.results[1].id # probe.answer[1].id

\* C12 (MemorySpec): after any sequence of add_user_message and
\* add_bot_message calls the turn log holds at most max_history entries, and
\* they are the most recent entries appended, in their original order.
BoundedFifoLog ==
    memory # None =>
        LET messages == memory.self.messages
            appended == memory.appended
        IN /\ Len(messages) <= memory.self.max_history
           /\ Len(messages) <= Len(appended)
           /\ messages = SubSeq(appended, Len(appended) - Len(messages) + 1, Len(appended))

\* the list has no term twice
duplicate_free(list) == Cardinality(terms(list)) = Len(list)

\* C13 (ProfileSpec): the exclusion list chat passes to search is, as a set,
\* the resolved exclusion list united with the session's long-term
\* exclusions; it holds no term twice; and merging the long-term exclusions
\* into the merged intent once more leaves the same set.
MergerIdempotentUnion ==
    [][ChatStep =>
          LET call == last_call'
              self == chatbots[call.session]
              passed == call.args.dietary_exclusions
          IN /\ \E resolved \in resolve_reference_query(self.conversation, call.message, call.raw) :
                   terms(passed) = terms(get(resolved, "dietary_exclusions"))
                                      \cup terms(self.saved_exclusions)
             /\ duplicate_free(passed)
             /\ \A again \in merge_saved(call.intent, self.saved_exclusions) :
                   /\ terms(get(again, "dietary_exclusions")) = terms(passed)
                   /\ duplicate_free(get(again, "dietary_exclusions"))]_vars

\* C13 witness: the second session of a customer whose long-term set holds
\* "chicken" was told "chicken" again, together with nothing else, and
\* searched with the one-term list
MergerWitness ==
    /\ last_call # None
    /\ last_call.session = 2
    /\ born[2] >= 1
    /\ pets[1].customer_id = chatbots[2].customer_id
    /\ chicken \in terms(json_loads(pets[1].allergies))
    /\ chicken \in terms(get(last_call.raw, "dietary_exclusions"))
    /\ last_call.args.dietary_exclusions = <<chicken>>

\* C14 (Spec): when a session whose current species is "dog" completes a
\* turn whose intent names "cat", the turn searches for "cat", the current
\* species is "cat" afterwards, and every exclusion accumulated before the
\* turn is still accumulated after it.
SpeciesSwitchKeepsExclusions ==
    [][(/\ ChatStep
        /\ last_call'.raised = NoError
        /\ chatbots[last_call'.session].conversation.context.current_pet = <<"d", "o", "g">>
        /\ get(last_call'.raw, "target_pet") = <<"c", "a", "t">>) =>
          LET before == chatbots[last_call'.session].conversation.context
              after == chatbots'[last_call'.session].conversation.context
          IN /\ last_call'.intent.target_pet = <<"c", "a", "t">>
             /\ last_call'.args.target_pet = <<"c", "a", "t">>
             /\ after.current_pet = <<"c", "a", "t">>
             /\ terms(before.current_exclusions) \subseteq terms(after.current_exclusions)]_vars

\* C14 witness: after "salmon-free dog food" the turn "what about for cats
\* instead" completed; the current species is "cat" and "salmon" is still
\* accumulated
SpeciesSwitchWitness ==
    /\ last_call # None
    /\ last_call.raised = NoError
    /\ turns = 2
    /\ get(last_call.raw, "target_pet") = <<"c", "a", "t">>
    /\ Len(chatbots[1].conversation.messages) = 4
    /\ get(chatbots[1].conversation.messages[1].intent, "target_pet") = <<"d", "o", "g">>
    /\ chatbots[1].conversation.context.current_pet = <<"c", "a", "t">>
    /\ salmon \in terms(chatbots[1].conversation.context.current_exclusions)

\* the text holds the word as a word of its own, not inside a longer word
has_word(word, text) ==
    LET letters == Range(LowerCase) \cup Range(UpperCase)
    IN \E i \in 0..(Len(text) - Len(word)) :
          /\ SubSeq(text, i + 1, i + Len(word)) = word
          /\ i = 0 \/ text[i] \notin letters
          /\ i + Len(word) = Len(text) \/ text[i + Len(word) + 1] \notin letters

\* the text holds one of the cue words "also", "too", "additionally", "and"
has_cue_word(text) ==
    \E word \in {<<"a", "l", "s", "o">>, <<"t", "o", "o">>, <<"a", "d", "d", "i", "t", "i", "o", "n", "a", "l", "l", "y">>, <<"a", "n", "d">>} : has_word(word, lower(text))

\* C15 (MemorySpec): for a text without any of the cue words "also", "too",
\* "additionally", "and", resolve_reference_query returns the intent's own
\* exclusion list, with no accumulated term added; and add_user_message
\* stores the union of the accumulated exclusions and the intent's.
UsedAsGivenWithoutCue ==
    [][/\ (memory'.resolved # None /\ ~has_cue_word(memory'.resolved.query)) =>
             get(memory'.resolved.out, "dietary_exclusions")
                = get(memory'.resolved.intent, "dietary_exclusions")
       /\ (/\ Len(memory'.appended) = Len(memory.appended) + 1
           /\ memory'.appended[Len(memory'.appended)].role = "user") =>
             terms(memory'.self.context.current_exclusions)
                = terms(memory.self.context.current_exclusions)
                     \cup terms(get(memory'.appended[Len(memory'.appended)].intent,
                                    "dietary_exclusions"))]_vars

\* C16 (MemorySpec): for a text that contains "also", "too", "additionally"
\* or "and", the exclusion list resolve_reference_query returns is, as a
\* set, the accumulated exclusions of the context united with the intent's
\* own, also for an intent without an exclusion field.
AccumulatedWithCue ==
    (memory # None /\ memory.resolved # None /\ additive_cue(lower(memory.resolved.query))) =>
        /\ "dietary_exclusions" \in DOMAIN memory.resolved.out
        /\ terms(memory.resolved.out.dietary_exclusions)
              = terms(memory.self.context.current_exclusions)
                   \cup terms(get(memory.resolved.intent, "dietary_exclusions"))

\* C16 witness: with "salmon" accumulated, "without chicken too" and an
\* intent excluding "chicken" resolved to both terms
AccumulatedWithCueWitness ==
    /\ memory # None /\ memory.resolved # None
    /\ memory.resolved.query = <<"w", "i", "t", "h", "o", "u", "t", " ", "c", "h", "i", "c", "k", "e", "n", " ", "t", "o", "o">>
    /\ terms(memory.self.context.current_exclusions) = {salmon}
    /\ get(memory.resolved.intent, "dietary_exclusions") = <<chicken>>
    /\ terms(memory.resolved.out.dietary_exclusions) = {salmon, chicken}

\* the resolved intent has the field exactly as the intent gave it
as_given(resolved, k) ==
    /\ k \in DOMAIN resolved.out <=> k \in DOMAIN resolved.intent
    /\ k \in DOMAIN resolved.intent => resolved.out[k] = resolved.intent[k]

\* the species, exclusion and brand transitions of a resolve_reference_query
\* call each applied exactly when its own condition held
other_transitions_independent(self, resolved) ==
    LET text == lower(resolved.query)
    IN /\ IF ~Truthy(get(resolved.intent, "target_pet")) /\ Truthy(self.context.current_pet)
          THEN get(resolved.out, "target_pet") = self.context.current_pet
          ELSE as_given(resolved, "target_pet")
       /\ IF additive_cue(text)
          THEN /\ "dietary_exclusions" \in DOMAIN resolved.out
               /\ terms(resolved.out.dietary_exclusions)
                     = terms(self.context.current_exclusions)
                          \cup terms(get(resolved.intent, "dietary_exclusions"))
          ELSE as_given(resolved, "dietary_exclusions")
       /\ IF brand_cue(text)
          THEN /\ "exclude_brands" \in DOMAIN resolved.out
               /\ resolved.out.exclude_brands = self.context.last_brands_shown
          ELSE as_given(resolved, "exclude_brands")
       /\ as_given(resolved, "query")

\* the bound is the factor (in tenths) times the mean price of the results
price_bound(resolved, k, tenths, last_results) ==
    /\ k \in DOMAIN resolved.out
    /\ resolved.out[k] * 10 * Len(last_results) = tenths * sum_prices(last_results)

DisjointAfterResolution ==
    (last_call # None /\ last_call.raised = NoError) =>
        terms(last_call.args.dietary_exclusions)
           \cap terms(last_call.args.dietary_requirements) = {}

\* C19 (ProfileSpec): the exclusion list of the search of every completed
\* turn holds every term that is in the customer's persisted long-term set
\* when the turn starts, whichever session wrote it and whenever.
LongTermExclusionsFresh ==
    [][(ChatStep /\ last_call'.raised = NoError) =>
          long_term_set(pets, chatbots[last_call'.session].customer_id)
             \subseteq terms(last_call'.args.dietary_exclusions)]_vars

brand_set(results) == {results[i].brand : i \in {j \in DOMAIN results : results[j].brand # None}}

\* C21 (MemorySpec): brand differentiation.  After a turn's results were
\* recorded, a text with both 'different' and 'brand' resolves exclude_brands
\* to the set of brands of those results, the empty set when there were none;
\* a text that lacks either word leaves exclude_brands as the intent has it.
BrandDifferentiation ==
    (memory # None /\ memory.resolved # None /\ memory.shown # None) =>
        LET query_lower == lower(memory.resolved.query)
            out == memory.resolved.out
        IN IF In(<<"d", "i", "f", "f", "e", "r", "e", "n", "t">>, query_lower) /\ In(<<"b", "r", "a", "n", "d">>, query_lower)
           THEN /\ "exclude_brands" \in DOMAIN out
                /\ Range(out.exclude_brands) = brand_set(memory.shown.results)
           ELSE get(out, "exclude_brands") = get(memory.resolved.intent, "exclude_brands")

\* C22 (Spec): last-shown brands are replaced, not accumulated.  After a
\* completed turn that returned results, the context's last_brands_shown is
\* a duplicate-free list of exactly the non-null brands of that turn's results.
LastBrandsReplaced ==
    [][(ChatStep /\ last_call'.raised = NoError /\ last_call'.results # <<>>) =>
          LET last_brands_shown ==
                  chatbots'[last_call'.session].conversation.context.last_brands_shown
          IN /\ duplicate_free(last_brands_shown)
             /\ Range(last_brands_shown) = brand_set(last_call'.results)]_vars

\* C22 witness: the first turn showed Farm Bowl of Bravo only (the dog food
\* without salmon), the second shows Prairie Mix of Acme, and Bravo is gone
LastBrandsWitness ==
    /\ turns = 2
    /\ last_call.raised = NoError
    /\ last_call.message = <<"w", "h", "a", "t", " ", "a", "b", "o", "u", "t", " ", "f", "o", "r", " ", "c", "a", "t", "s", " ", "i", "n", "s", "t", "e", "a", "d">>
    /\ brand_set(last_call.results) = {<<"A", "c", "m", "e">>}
    /\ LET context == chatbots[last_call.session].conversation.context
       IN /\ context.current_exclusions = <<salmon>>
          /\ context.last_brands_shown = <<<<"A", "c", "m", "e">>>>

\* C23 (Spec): price window update.  After a completed turn whose resolved
\* intent carries a price_min or a price_max, the context's price window
\* holds the bounds the intent carries; a completed turn without a bound
\* leaves the window as it was.
PriceWindowUpdated ==
    [][(ChatStep /\ last_call'.raised = NoError) =>
          LET intent == last_call'.intent
              price_range == chatbots'[last_call'.session].conversation.context.price_range
          IN IF "price_max" \in DOMAIN intent \/ "price_min" \in DOMAIN intent
             THEN /\ price_range # None
                  /\ "price_max" \in DOMAIN intent => price_range.max = intent.price_max
                  /\ "price_min" \in DOMAIN intent => price_range.min = intent.price_min
             ELSE price_range = chatbots[last_call'.session].conversation.context.price_range]_vars

\* C24 (Spec): species inheritance and tracking.  The resolved intent of a
\* turn has the context's species exactly when the extracted intent has none
\* and the context has one, and otherwise the species the extracted intent
\* names; after a completed turn the context's species is the one the turn
\* resolved, or the earlier one when the turn resolved none; and a species
\* once set is never null again.
SpeciesInheritedAndTracked ==
    [][ChatStep =>
          LET before == chatbots[last_call'.session].conversation.context.current_pet
              after == chatbots'[last_call'.session].conversation.context.current_pet
              named == get(last_call'.raw, "target_pet")
              resolved == get(last_call'.intent, "target_pet")
          IN /\ resolved = IF named = None /\ before # None THEN before ELSE named
             /\ last_call'.raised = NoError =>
                   after = IF resolved # None THEN resolved ELSE before
             /\ before # None => after # None]_vars

\* C24 witness: a second turn whose extracted intent names no species has
\* inherited 'dog' from the first, and the context still holds it
SpeciesInheritedWitness ==
    /\ turns = 2
    /\ last_call.raised = NoError
    /\ last_call.message = <<"s", "h", "o", "w", " ", "m", "e", " ", "c", "h", "e", "a", "p", "e", "r", " ", "o", "p", "t", "i", "o", "n", "s">>
    /\ get(last_call.raw, "target_pet") = None
    /\ get(last_call.intent, "target_pet") = <<"d", "o", "g">>
    /\ chatbots[last_call.session].conversation.context.current_pet = <<"d", "o", "g">>

\* C25 (Spec): order of steps within a turn.  The calls a chat call makes
\* are an initial part of resolution, merge, search, user entry, assistant
\* entry, profile write.  An error of the search leaves the context as it
\* was; a turn that got past the search has appended to the turn log its
\* user entry, with the merged intent, and then its assistant entry, with the
\* number of results found, also when the profile write then fails; the
\* pets table changes only in a turn whose log entries are written; and the
\* search is made with the long-term exclusions the session held merged in.
StepsInOrder ==
    [][ChatStep =>
          LET call == last_call'
              before == chatbots[call.session].conversation
              after == chatbots'[call.session].conversation
              entries == <<[role |-> "user", content |-> call.message, intent |-> call.intent],
                           [role |-> "assistant",
                            content |-> after.messages[Len(after.messages)].content]>>
          IN /\ call.steps = SubSeq(ChatOrder, 1, Len(call.steps))
             /\ call.raised = NoError => Len(call.steps) >= 5
             /\ IF Len(call.steps) >= 5
                THEN /\ after.messages = before.messages \o entries
                     /\ call.raised = NoError =>
                           entries[2].content = found_message(call.results)
                ELSE after = before
             /\ pets' # pets => (Len(call.steps) = 6 /\ after.messages = before.messages \o entries)
             /\ terms(chatbots[call.session].saved_exclusions)
                   \subseteq terms(call.args.dietary_exclusions)]_vars

\* C25 witness: an allergy turn has completed with all six steps, its two
\* log entries and its pet row
StepsInOrderWitness ==
    /\ last_call # None
    /\ last_call.raised = NoError
    /\ last_call.steps = ChatOrder
    /\ Len(pets) = 1
    /\ Len(chatbots[last_call.session].conversation.messages) = 2
    /\ chatbots[last_call.session].conversation.messages[1].role = "user"
    /\ chatbots[last_call.session].conversation.messages[2].role = "assistant"

\* C26 (SearchSpec): composition is all-or-nothing.  In a search with an
\* exclusion or a requirement term, a Vector Store query is issued only when
\* the base query and every term have been embedded, 1 + |exclusions| +
\* |requirements| calls none of which failed; when an embedding call fails no
\* query is issued, nothing is returned and search raises EmbeddingUnavailable.
CompositionAllOrNothing ==
    (probe # None /\ probe.out # None /\ contrastive(probe.args)) =>
        LET out == probe.out
            calls == 1 + Len(probe.args.dietary_exclusions)
                       + Len(probe.args.dietary_requirements)
        IN /\ out.queries # <<>> =>
                 /\ probe.fault.embed_fail_at = 0
                 /\ Len(out.embedded) = calls
                 /\ out.embedded[1] = probe.args.query
                 /\ out.queries[1].mode = "query_embeddings"
           /\ probe.fault.embed_fail_at \in 1..calls =>
                 /\ out.queries = <<>>
                 /\ out.results = <<>>
                 /\ out.raised = "EmbeddingUnavailable"
           /\ probe.fault.embed_fail_at = 0 => Len(out.queries) = 1

\* C26 witness: the embedding of the last of two exclusion and two
\* requirement terms failed, after four calls that succeeded
CompositionWitness ==
    /\ probe # None /\ probe.out # None
    /\ Len(probe.args.dietary_exclusions) = 2
    /\ Len(probe.args.dietary_requirements) = 2
    /\ probe.fault.embed_fail_at = 5
    /\ probe.fault.store_ok
    /\ probe.out.raised = "EmbeddingUnavailable"
    /\ probe.out.queries = <<>>

\* C27 (SearchSpec): single over-fetching retrieval.  A call of search
\* issues one Vector Store query (none when an embedding call failed before
\* it), never a second one, also when fewer than max_results candidates
\* survive; the query asks for 3 x max_results candidates with the built
\* predicate, by the composed vector exactly when the exclusion list or the
\* requirement list is non-empty and by the raw query text otherwise.
SingleOverFetch ==
    (probe # None /\ probe.out # None) =>
        LET args == probe.args
            queries == probe.out.queries
        IN /\ Len(queries) = IF probe.out.raised = "EmbeddingUnavailable" THEN 0 ELSE 1
           /\ \A i \in DOMAIN queries :
                 /\ queries[i].n_results = 3 * args.max_results
                 /\ queries[i].where = where_filter(args.target_pet, args.dietary_exclusions)
                 /\ queries[i].mode =
                       IF args.dietary_exclusions # <<>> \/ args.dietary_requirements # <<>>
                       THEN "query_embeddings" ELSE "query_texts"
           /\ (probe.out.raised = NoError /\ queries[1].mode = "query_texts") =>
                 probe.out.embedded = <<>>

\* C27 witness: a search for five results whose one query asked for fifteen
\* candidates returned a single result
SingleOverFetchWitness ==
    /\ probe # None /\ probe.out # None
    /\ probe.out.raised = NoError
    /\ probe.args.max_results = 5
    /\ Len(probe.out.queries) = 1
    /\ probe.out.queries[1].n_results = 15
    /\ Len(probe.out.results) = 1

\* the exclusion terms of a list that name a recognized allergen, in order
recognized(dietary_exclusions) ==
    SelectSeq(dietary_exclusions, LAMBDA t : lower(t) \in {salmon, chicken, grain, grains})

\* the flag a recognized allergen is looked up by
flag_of(term) ==
    IF lower(term) = salmon THEN "has_salmon"
    ELSE IF lower(term) = chicken THEN "has_chicken" ELSE "has_grain"

\* C28 (SearchSpec): Filter Builder shape.  The predicate of the query has
\* one equality condition on the species when there is one, then one
\* flag-is-false condition for each exclusion term that is a recognized
\* allergen in any letter case, and nothing for any other term; with no
\* condition the predicate is absent, with one it is that condition, with
\* more it is the AND of all of them.
FilterShape ==
    (probe # None /\ probe.out # None /\ probe.out.queries # <<>>) =>
        LET args == probe.args
            where == probe.out.queries[1].where
            species == IF args.target_pet # None
                       THEN <<[target_pet |-> [eq |-> args.target_pet]]>> ELSE <<>>
            allergens == recognized(args.dietary_exclusions)
            flags == [i \in DOMAIN allergens |->
                         [f \in {flag_of(allergens[i])} |-> [eq |-> FALSE]]]
            expected == species \o flags
        IN where = IF Len(expected) = 0 THEN None
                   ELSE IF Len(expected) = 1 THEN expected[1]
                   ELSE [and |-> expected]

\* C28 witness: a search for dog food without 'SALMON' and chicken was made
\* with the AND of three conditions
FilterShapeWitness ==
    /\ probe # None /\ probe.out # None
    /\ probe.args.target_pet = <<"d", "o", "g">>
    /\ probe.args.dietary_exclusions = <<<<"S", "A", "L", "M", "O", "N">>, chicken>>
    /\ Len(probe.out.queries) = 1
    /\ probe.out.queries[1].where =
          [and |-> <<[target_pet |-> [eq |-> <<"d", "o", "g">>]],
                     [has_salmon |-> [eq |-> FALSE]],
                     [has_chicken |-> [eq |-> FALSE]]>>]

\* C29 (StoreSpec): the long-term set is a non-shrinking union.  For every
\* customer, get_dietary_exclusions_for_customer returns a duplicate-free
\* list of exactly the terms of the allergy lists of that customer's pet
\* rows; save_pet_profile(c, d) adds the terms of d's allergy list to the set
\* of c and leaves the set of every other customer as it is; and no step, a
\* chat turn included, takes a term out of a customer's set.
LongTermSetIsUnion ==
    [][/\ \A c \in 1..Len(customers') :
             \A out \in get_dietary_exclusions_for_customer(pets', c) :
                /\ duplicate_free(out)
                /\ Range(out) = long_term_set(pets', c)
       /\ \A c \in 1..Len(customers) :
             /\ long_term_set(pets, c) \subseteq long_term_set(pets', c)
             /\ \A profile \in PetProfiles :
                   pets' = save_pet_profile(pets, c, profile) =>
                      \A k \in 1..Len(customers) :
                         long_term_set(pets', k)
                            = long_term_set(pets, k)
                                 \cup (IF k = c THEN Range(profile.allergies) ELSE {})]_vars

\* C29 witness: the first customer has three pet rows with the lists
\* ['chicken'] (written by a chat turn), ['salmon', 'chicken'] and ['grain']
\* in some order, whose union has three terms
LongTermSetWitness ==
    /\ Len(customers) = 2
    /\ turns = 1
    /\ Len(pets) = 3
    /\ \A i \in DOMAIN pets : pets[i].customer_id = 1
    /\ long_term_set(pets, 1) = {chicken, salmon, grain}
    /\ long_term_set(pets, 2) = {}

\* two intents are equal, their exclusion lists compared as sets
same_intent(a, b) ==
    /\ DOMAIN a = DOMAIN b
    /\ \A k \in DOMAIN a :
          IF k = "dietary_exclusions" THEN Range(a[k]) = Range(b[k]) ELSE a[k] = b[k]

place(answer, id) == CHOOSE k \in DOMAIN answer : answer[k].id = id

\* C31 (SearchSpec): a search that returned lists its results by
\* non-increasing similarity, each similarity being 1 - distance of the
\* candidate the store answered (100 - distance in hundredths, negative when
\* the distance exceeds 1), and any two results, tied or not, stand in the
\* order the store gave them.
ResultOrdering ==
    (probe.out # None /\ probe.out.raised = NoError) =>
        LET results == probe.out.results
            answer == probe.answer
        IN /\ \A i \in DOMAIN results :
                  /\ \E k \in DOMAIN answer : answer[k].id = results[i].id
                  /\ results[i].similarity = 100 - answer[place(answer, results[i].id)].distance
           /\ \A i, j \in DOMAIN results :
                  i < j => /\ results[i].similarity >= results[j].similarity
                           /\ place(answer, results[i].id) < place(answer, results[j].id)

\* C31 witness: a returned list of three with a tie at similarity 0.90
\* followed by a result of negative similarity (distance 1.20).
ResultOrderingWitness ==
    /\ probe.out # None
    /\ probe.out.raised = NoError
    /\ Len(probe.out.results) = 3
    /\ probe.out.results[1].similarity = 90
    /\ probe.out.results[2].similarity = 90
    /\ probe.out.results[3].similarity = -20

(***************************************************************************)
(* The summary chat returns.                                               *)
(***************************************************************************)
\* str.find: the first place needle starts at in hay, 0 when it is not there
find(needle, hay) ==
    IF In(needle, hay)
    THEN CHOOSE i \in 1..Len(hay) :
            /\ SubSeq(hay, i, i + Len(needle) - 1) = needle
            /\ \A j \in 1..(i - 1) : SubSeq(hay, j, j + Len(needle) - 1) # needle
    ELSE 0

\* C33 (Spec): summary projection.  The summary a completed turn returns is
\* 'No active filters' exactly when the context has no current species, no
\* accumulated exclusion and no price window; otherwise it has a part for
\* each of the three that is present and for no other, joined by ' | ' in
\* the order species, exclusions, price range, naming the species, every
\* accumulated exclusion and the two bounds.
SummaryProjection ==
    (last_call # None /\ last_call.raised = NoError) =>
        LET context == chatbots[last_call.session].conversation.context
            summary == last_call.context
            species == find(<<"S", "h", "o", "p", "p", "i", "n", "g", " ", "f", "o", "r", ":", " ">>, summary)
            excluding == find(<<"E", "x", "c", "l", "u", "d", "i", "n", "g", ":", " ">>, summary)
            window == find(<<"P", "r", "i", "c", "e", " ", "r", "a", "n", "g", "e", ":", " ", "$">>, summary)
            empty == /\ ~Truthy(context.current_pet)
                     /\ ~Truthy(context.current_exclusions)
                     /\ ~Truthy(context.price_range)
        IN /\ (summary = <<"N", "o", " ", "a", "c", "t", "i", "v", "e", " ", "f", "i", "l", "t", "e", "r", "s">>) <=> empty
           /\ (species # 0) <=> Truthy(context.current_pet)
           /\ (excluding # 0) <=> Truthy(context.current_exclusions)
           /\ (window # 0) <=> Truthy(context.price_range)
           /\ species # 0 =>
                 /\ species = 1
                 /\ find(<<"S", "h", "o", "p", "p", "i", "n", "g", " ", "f", "o", "r", ":", " ">> \o context.current_pet, summary) = 1
           /\ excluding # 0 =>
                 /\ excluding > species
                 /\ species # 0 => SubSeq(summary, excluding - 3, excluding - 1) = <<" ", "|", " ">>
                 /\ species = 0 => excluding = 1
                 /\ find(<<"E", "x", "c", "l", "u", "d", "i", "n", "g", ":", " ">> \o str_join(<<",", " ">>, context.current_exclusions),
                         summary) = excluding
           /\ window # 0 =>
                 /\ window > species /\ window > excluding
                 /\ (species # 0 \/ excluding # 0) =>
                        SubSeq(summary, window - 3, window - 1) = <<" ", "|", " ">>
                 /\ (species = 0 /\ excluding = 0) => window = 1
                 /\ SubSeq(summary, window, Len(summary)) =
                       <<"P", "r", "i", "c", "e", " ", "r", "a", "n", "g", "e", ":", " ", "$">> \o str(context.price_range.min)
                           \o <<"-", "$">> \o str(context.price_range.max)

\* C33 witness: a completed turn returned a summary of all three parts, and
\* the species first and the price range last.
SummaryProjectionWitness ==
    /\ last_call # None
    /\ last_call.raised = NoError
    /\ find(<<"S", "h", "o", "p", "p", "i", "n", "g", " ", "f", "o", "r", ":", " ", "d", "o", "g", " ", "|", " ", "E", "x", "c", "l", "u", "d", "i", "n", "g", ":", " ", "s", "a", "l", "m", "o", "n", " ", "|", " ", "P", "r", "i", "c", "e", " ", "r", "a", "n", "g", "e", ":", " ", "$">>, last_call.context) = 1

\* C32 (Spec): missing fields are not stored as sentinels.  After a completed
\* turn whose resolved intent has a price_max and no price_min, the context's
\* price window does not record 0 as its minimum and the summary the turn
\* returns shows no minimum of 0; and a bound the intent gives is recorded as
\* given, a bound of 0 included.
NoSentinelMinimum ==
    (last_call # None /\ last_call.raised = NoError) =>
        LET intent == last_call.intent
            price_range == chatbots[last_call.session].conversation.context.price_range
        IN /\ ("price_max" \in DOMAIN intent /\ "price_min" \notin DOMAIN intent) =>
                 /\ price_range # None
                 /\ price_range.min # 0
                 /\ ~In(<<"$", "0", "-">>, last_call.context)
           /\ "price_max" \in DOMAIN intent =>
                 /\ price_range # None
                 /\ price_range.max = intent.price_max

(***************************************************************************)
(* What the search of a turn depends on.                                   *)
(***************************************************************************)
\* the keys of an intent the search call reads
SearchKeys == {"query", "dietary_exclusions", "dietary_requirements", "target_pet"}

\* the other fields an intent may carry
OtherFields ==
    {<<>>,
     [price_max |-> 10],
     [price_min |-> 20, price_max |-> 50],
     [exclude_brands |-> <<<<"A", "c", "m", "e">>, <<"B", "r", "a", "v", "o">>>>],
     [brand |-> <<"A", "c", "m", "e">>, life_stage |-> <<"a", "d", "u", "l", "t">>, size_category |-> <<"s", "m", "a", "l", "l">>]}

\* the intents that differ from intent in price_min, price_max,
\* exclude_brands, brand, life_stage and size_category at most
variants(intent) ==
    {[k \in (DOMAIN intent \cap SearchKeys) \cup DOMAIN other |->
         IF k \in DOMAIN other THEN other[k] ELSE intent[k]] : other \in OtherFields}

\* C34 (Spec): the search of a turn depends on the resolved query text,
\* exclusion list, requirement list and species only.  Every intent that
\* differs from the turn's resolved intent in price_min, price_max,
\* exclude_brands, brand, life_stage or size_category at most gives the
\* arguments the turn searched with, hence the same store query, and the
\* results a completed turn returned are the ones the search returns for the
\* intent without any of those fields.
SearchIgnoresPriceAndBrand ==
    last_call # None =>
        /\ \A v \in variants(last_call.intent) :
              search_args(v, last_call.message) = last_call.args
        /\ last_call.raised = NoError =>
              \E v \in variants(last_call.intent), order \in SessionOrders :
                 /\ DOMAIN v \subseteq SearchKeys
                 /\ LET args == search_args(v, last_call.message)
                        ids == nearest(collection,
                                       where_filter(args.target_pet, args.dietary_exclusions),
                                       args.max_results * 3, order)
                    IN last_call.results =
                          search(args, collection, 0, TRUE, candidates(collection, ids)).results

\* C34 witness: a completed turn whose resolved intent has a price_max
\* returned a product that costs more than that.
SearchIgnoresPriceWitness ==
    /\ last_call # None
    /\ last_call.raised = NoError
    /\ "price_max" \in DOMAIN last_call.intent
    /\ \E i \in DOMAIN last_call.results :
          last_call.results[i].price > last_call.intent.price_max

\* C35 (Spec): in every session last_results is the result list of the most
\* recent completed turn that returned at least one result: a completed turn
\* with results stores its list, and nothing else (a turn that returned no
\* result, a turn that did not complete, a step of another session) changes
\* last_results.
LastResultsOfCompletedTurn ==
    [][\A s \in Sessions :
          (chatbots[s] # None /\ chatbots'[s] # None) =>
              LET before == chatbots[s].conversation.last_results
                  after == chatbots'[s].conversation.last_results
              IN IF /\ ChatStep
                    /\ last_call'.session = s
                    /\ last_call'.raised = NoError
                    /\ Truthy(last_call'.results)
                 THEN after = last_call'.results
                 ELSE after = before]_vars

\* C36 (ProfileSpec): long-term exclusions flow into the session state.
\* After every completed turn the session's accumulated exclusion list
\* contains every long-term exclusion the chatbot had cached when the turn's
\* merge ran.
CachedExclusionsAccumulated ==
    [][(ChatStep /\ last_call'.raised = NoError) =>
          LET s == last_call'.session
          IN Range(chatbots[s].saved_exclusions)
                \subseteq Range(chatbots'[s].conversation.context.current_exclusions)]_vars

\* C36 witness: a session constructed with "chicken" cached completed a turn
\* whose extracted intent names no chicken, and its accumulated exclusion
\* list has the term.
CachedExclusionsWitness ==
    /\ last_call # None
    /\ last_call.raised = NoError
    /\ chicken \notin Range(get(last_call.raw, "dietary_exclusions"))
    /\ chicken \in Range(chatbots[last_call.session].saved_exclusions)
    /\ born[last_call.session] >= 1
    /\ chicken \in Range(chatbots[last_call.session].conversation.context.current_exclusions)

\* C37 (ProfileSpec): profile writes per turn.  A completed turn whose text
\* has an allergy phrase appends exactly one row to the pets table, for the
\* session's customer, whose allergy list is the turn's resolved exclusion
\* list, and after it the chatbot's cached long-term exclusions are the
\* union of the allergy lists the store holds for the customer; a completed
\* turn without such a phrase leaves the pets table and the cache as they
\* were.
ProfileWritePerTurn ==
    [][(ChatStep /\ last_call'.raised = NoError) =>
          LET call == last_call'
              s == call.session
              customer == chatbots[s].customer_id
          IN IF allergy_phrase(call.message)
             THEN /\ Len(pets') = Len(pets) + 1
                  /\ SubSeq(pets', 1, Len(pets)) = pets
                  /\ pets'[Len(pets')].customer_id = customer
                  /\ json_loads(pets'[Len(pets')].allergies)
                        = get(call.intent, "dietary_exclusions")
                  /\ duplicate_free(chatbots'[s].saved_exclusions)
                  /\ Range(chatbots'[s].saved_exclusions) = long_term_set(pets', customer)
             ELSE /\ pets' = pets
                  /\ chatbots'[s].saved_exclusions = chatbots[s].saved_exclusions]_vars

\* C37 witness: an allergy turn of a session that had "chicken" cached wrote
\* a row with the two terms of its resolved list, the merged one included.
ProfileWriteWitness ==
    /\ last_call # None
    /\ last_call.raised = NoError
    /\ last_call.message = <<"M", "y", " ", "c", "a", "t", " ", "c", "a", "n", "n", "o", "t", " ", "e", "a", "t", " ", "s", "a", "l", "m", "o", "n">>
    /\ Len(pets) = 2
    /\ Range(json_loads(pets[2].allergies)) = {salmon, chicken}
    /\ Range(chatbots[last_call.session].saved_exclusions) = {salmon, chicken}

\* C38 (CustomerSpec): get_or_create_customer is idempotent per email.
\* Whatever the interleaving of the calls of the sessions, every call returns
\* the id of the one customer row that has its email, no two rows have the
\* same email, and a call for an email that has a row inserts nothing.
GetOrCreateIdempotent ==
    /\ \A i, j \in DOMAIN customers : customers[i].email = customers[j].email => i = j
    /\ last_call # None =>
          /\ last_call.raised = NoError
          /\ has_customer(customers, last_call.email)
          /\ last_call.returned = customer_id_of(customers, last_call.email)
          /\ last_call.inserted =>
                \A i \in DOMAIN customers :
                   customers[i].email = last_call.email => customers[i].id = last_call.returned

\* C39 (MemorySpec): the accumulated exclusion list of the context never has
\* the same string twice, after any sequence of add_user_message calls,
\* those whose intent lists a term twice or repeats an accumulated term
\* included.
AccumulatedDuplicateFree ==
    duplicate_free(memory.self.context.current_exclusions)

\* C39 witness: after a call whose intent lists "chicken" twice and a call
\* whose intent repeats it, the accumulated list has it.
AccumulatedDuplicateFreeWitness ==
    /\ \E i, j \in DOMAIN memory.appended :
          /\ i < j
          /\ memory.appended[i].role = "user"
          /\ memory.appended[j].role = "user"
          /\ get(memory.appended[i].intent, "dietary_exclusions") = <<chicken, chicken>>
          /\ get(memory.appended[j].intent, "dietary_exclusions") = <<chicken>>
    /\ chicken \in Range(memory.self.context.current_exclusions)

====
